---- MODULE Spec2Model ----
(***************************************************************************)
(* uCal: a small calendar component in C99.                                *)
(*                                                                         *)
(* A model of the day-number kernel (Gregorian calendar), the weekday      *)
(* shifts, the NTP unfolding and the POSIX time zone engine (parser, rule  *)
(* evaluation, year-frame cache, UTC <-> local resolvers, aligned local    *)
(* range), translated from the C sources.                                  *)
(*                                                                         *)
(* 32-bit quantities are TLC integers; where the C code relies on          *)
(* wrap-around (mod 2^32) the operators WrapAdd32 / WrapSub32 compute the  *)
(* wrapped two's complement result limb-wise.  An unsigned 32-bit value is *)
(* represented by the signed integer with the same bit pattern.            *)
(***************************************************************************)
EXTENDS Integers, Sequences, FiniteSets, TLC

VARIABLES
    ctx,      \* tziConvCtxT of the time zone engine (pTZI: the bound zone)
    call,     \* the last conversion entry point called, with its arguments
    retv,     \* what that call returned
    into,     \* the tziConvInfoT it wrote
    tlohi,    \* the caller's range buffer after that call
    calc      \* pure-function specifications: the inputs and the results

vars == <<ctx, call, retv, into, tlohi, calc>>

tzVars == <<ctx, call, retv, into, tlohi>>

(***************************************************************************)
(* Integer kernel                                                          *)
(***************************************************************************)
INT32_MAX == 2147483647
INT32_MIN == -INT32_MAX - 1
INT16_MAX == 32767
INT16_MIN == -32768

Limb == 2 ^ 16

\* C's '/' on signed operands truncates toward zero.
TruncDiv(a, b) == IF a >= 0 THEN a \div b ELSE -((-a) \div b)

\* C's '%' on signed operands: the sign follows the dividend.
TruncMod(a, b) == a - b * TruncDiv(a, b)

\* The idiom  m = -(n < 0); q = m ^ ((m ^ n) / d) : for a negative n the
\* one's complement (-n - 1) is divided and the quotient complemented again.
MaskDiv(n, d) == IF n < 0 THEN -(((-n) - 1) \div d) - 1 ELSE n \div d

\* (int32_t)((uint32_t)a + (uint32_t)b): addition modulo 2^32 on 16-bit limbs.
WrapAdd32(a, b) ==
    LET l0 == (a % Limb) + (b % Limb)
        c  == IF l0 >= Limb THEN 1 ELSE 0
        l  == l0 - c * Limb
        h0 == (a \div Limb) + (b \div Limb) + c
        h  == ((h0 + 32768) % Limb) - 32768
    IN  h * Limb + l

\* (int32_t)((uint32_t)a - (uint32_t)b): subtraction modulo 2^32.
WrapSub32(a, b) ==
    LET l0 == (a % Limb) - (b % Limb)
        c  == IF l0 < 0 THEN 1 ELSE 0
        l  == l0 + c * Limb
        h0 == (a \div Limb) - (b \div Limb) - c
        h  == ((h0 + 32768) % Limb) - 32768
    IN  h * Limb + l

\* a > b for two uint32_t values given by their bit patterns.
UGt32(a, b) ==
    IF (a < 0) = (b < 0) THEN a > b ELSE a < 0

ucal_i32Asr(v, s) == v \div (2 ^ s)

ucal_i32SubMod7(a, b) ==
    LET xred == (7 * 131072)
              + (a % 32768) + ucal_i32Asr(a, 15)
              - (b % 32768) - ucal_i32Asr(b, 15)
    IN  xred % 7

(***************************************************************************)
(* Day kernel: month splits and the Gregorian calendar                     *)
(***************************************************************************)
ucal_DaysToMonth(ed, isLY) ==
    LET skipdays == 1 + (IF isLY THEN 0 ELSE 1)
        e1 == IF ed >= 61 - skipdays THEN ed + skipdays ELSE ed
        m  == (e1 * 67 + 32) \div 2048
    IN  [q |-> m, r |-> e1 - ((m * 489 + 8) \div 16)]

ucal_MonthsToDays(m) ==
    LET em == m + 9
        qm == MaskDiv(em, 12)
        e1 == em - qm * 12
    IN  [q |-> qm, r |-> (979 * e1 + 16) \div 32]

\* A wrong variant of the leap day count, the Julian rule: every fourth year.
LeapDaysEveryFourth(ey) == MaskDiv(ey, 4)

ucal_IsLeapYearGD(y) == (y % 4 = 0) /\ ((y % 16 = 0) \/ (TruncMod(y, 25) # 0))

ucal_LeapDaysInYearsGD(ey) ==
    LET uy0 == IF ey < 0 THEN -ey - 1 ELSE ey
        uy1 == uy0 \div 4
        uy2 == uy1 \div 25
        uy3 == uy2 \div 4
        ud  == uy1 - uy2 + uy3
    IN  IF ey < 0 THEN -ud - 1 ELSE ud

\* The single-register path: size_t is wider than int32_t.
ucal_DaysToYearsGD(rdn) ==
    LET n     == 4 * rdn - 1
        q     == IF rdn <= 0 THEN -(((-n) - 1) \div 146097) - 1
                             ELSE n \div 146097
        sday0 == n - q * 146097
        sday1 == sday0 - (sday0 % 4) + 3
        qy    == sday1 \div 1461
        sday2 == sday1 - qy * 1461
    IN  [q  |-> q * 100 + qy,
         r  |-> sday2 \div 4,
         LY |-> ((qy % 4) = 3) /\ (qy <= 96 + (q % 4))]

ucal_RdnToDateGD(rdn) ==
    LET yd == ucal_DaysToYearsGD(rdn)
        yq == yd.q + 1
        md == ucal_DaysToMonth(yd.r, yd.LY)
    IN  IF yq < INT16_MIN \/ yq > INT16_MAX
        THEN [ok |-> FALSE]
        ELSE [ok     |-> TRUE,
              dWDay  |-> ucal_i32SubMod7(rdn, 1) + 1,
              fLeap  |-> yd.LY,
              dYear  |-> yq,
              dYDay  |-> yd.r + 1,
              dMonth |-> md.q + 1,
              dMDay  |-> md.r + 1]

ucal_DateToRdnGD(y, m, d) ==
    LET em == ucal_MonthsToDays(m)
        ey == y - 1 + em.q
    IN  (ey * 365) + ucal_LeapDaysInYearsGD(ey) + em.r + d - 306

ucal_YearStartGD(y) ==
    LET ey == y - 1
    IN  (ey * 365) + ucal_LeapDaysInYearsGD(ey) + 1

(***************************************************************************)
(* Weekday arithmetic                                                      *)
(***************************************************************************)
\* Each yields the day and whether errno was set to ERANGE.
checkedAdd(rdn, shift) ==
    LET avail == WrapSub32(INT32_MAX, rdn)
    IN  IF UGt32(shift, avail)
        THEN [rdn |-> INT32_MAX, erange |-> TRUE]
        ELSE [rdn |-> WrapAdd32(rdn, shift), erange |-> FALSE]

checkedSub(rdn, shift) ==
    LET avail == WrapSub32(rdn, INT32_MAX)
    IN  IF UGt32(shift, avail)
        THEN [rdn |-> INT32_MIN, erange |-> TRUE]
        ELSE [rdn |-> WrapSub32(rdn, shift), erange |-> FALSE]

ucal_WdGT(rdn, wd) == checkedAdd(rdn, ucal_i32SubMod7(wd - 1, rdn) + 1)

ucal_WdGE(rdn, wd) == checkedAdd(rdn, ucal_i32SubMod7(wd, rdn))

ucal_WdLE(rdn, wd) == checkedSub(rdn, ucal_i32SubMod7(rdn, wd))

ucal_WdLT(rdn, wd) == checkedSub(rdn, ucal_i32SubMod7(rdn, wd + 1) + 1)

ucal_WdNear(rdn, wd) ==
    IF rdn < 0 THEN ucal_WdLE(rdn + 3, wd) ELSE ucal_WdGE(rdn - 3, wd)

(***************************************************************************)
(* POSIX time zone engine: zones                                           *)
(***************************************************************************)
UCAL_rdnUNIX == 719163

EPOCH_YEAR == 1970

PosixRule(month, mdmw, wday, ttloc) ==
    [rt_month |-> month, rt_mdmw |-> mdmw, rt_wday |-> wday, rt_ttloc |-> ttloc]

NoRule == PosixRule(0, 0, 0, 0)

PosixZone(stdOffs, dstOffs, dstRule, stdRule) ==
    [stdOffs |-> stdOffs, dstOffs |-> dstOffs, dstRule |-> dstRule, stdRule |-> stdRule]

\* "CET-1CEST,M3.5.0/2,M10.5.0/3"
Berlin == PosixZone(-60, -120, PosixRule(3, 5, 7, 120), PosixRule(10, 5, 7, 180))

\* "NZST-12NZDT,M9.5.0,M4.1.0/3"
Auckland == PosixZone(-720, -780, PosixRule(9, 5, 7, 120), PosixRule(4, 1, 7, 180))

\* "IST-1GMT0,M10.5.0,M3.5.0/1"
Dublin == PosixZone(-60, 0, PosixRule(10, 5, 7, 120), PosixRule(3, 5, 7, 60))

\* "EST5": a single zone, no DST name.
FixedStd == PosixZone(300, 0, NoRule, NoRule)

\* "XXX3YYY2,0/0,J1": DST all year, the stdRule zeroed by the parser.
FixedDst == PosixZone(180, 120, PosixRule(1, 1, 0, 0), NoRule)

\* "AAA3BBB2,J1/2,J365/23": both transitions within a day of the new year.
NewYear == PosixZone(180, 120, PosixRule(1, 1, 0, 120), PosixRule(12, 31, 0, 1380))

\* The zone objects a context can point to; a pTZI is the name of one.
ZoneNames == {"Berlin", "Auckland", "Dublin", "FixedStd", "FixedDst"}

Zone(pTZI) ==
    CASE pTZI = "Berlin"   -> Berlin
      [] pTZI = "Auckland" -> Auckland
      [] pTZI = "Dublin"   -> Dublin
      [] pTZI = "FixedStd" -> FixedStd
      [] pTZI = "FixedDst" -> FixedDst
      [] pTZI = "NewYear"  -> NewYear

HasBothRules(tzi) == tzi.dstRule.rt_month # 0 /\ tzi.stdRule.rt_month # 0

(***************************************************************************)
(* POSIX time zone engine: rule evaluation and the year frame              *)
(***************************************************************************)
int_min(a, b) == IF a <= b THEN a ELSE b

int_max(a, b) == IF a <= b THEN b ELSE a

tzi_dm2s(days, mins) == 60 * (days * 1440 + mins)

\* A wrong variant of the rule evaluation: week 5 counted on from the first
\* occurrence like the weeks 1 to 4.
EvalRuleCounted(rule, year) ==
    IF rule.rt_wday # 0
    THEN ucal_WdGE(ucal_DateToRdnGD(year, rule.rt_month, 1), rule.rt_wday).rdn
         + (rule.rt_mdmw - 1) * 7
    ELSE ucal_DateToRdnGD(year, rule.rt_month, rule.rt_mdmw)

tzi_EvalRule(rule, year) ==
    IF rule.rt_wday # 0
    THEN IF rule.rt_mdmw = 5
         THEN ucal_WdLE(ucal_DateToRdnGD(year, rule.rt_month + 1, 0), rule.rt_wday).rdn
         ELSE ucal_WdGE(ucal_DateToRdnGD(year, rule.rt_month, 1), rule.rt_wday).rdn
              + (rule.rt_mdmw - 1) * 7
    ELSE ucal_DateToRdnGD(year, rule.rt_month, rule.rt_mdmw)

\* The year tzi_CtxUpdate derives from the query instant.
tzi_FrameYear(tsfrom) ==
    LET year == TruncDiv(tsfrom, 31556952)
    IN  year + EPOCH_YEAR - (IF tsfrom < year * 31556952 THEN 1 ELSE 0)

\* The frame tzi_CtxUpdate computes for a year.
tzi_YearFrame(tzi, year) ==
    LET ystart == ucal_YearStartGD(year) - UCAL_rdnUNIX
        ysnext == ucal_YearStartGD(year + 1) - UCAL_rdnUNIX
        dayDST == tzi_EvalRule(tzi.dstRule, year) - UCAL_rdnUNIX
        daySTD == tzi_EvalRule(tzi.stdRule, year) - UCAL_rdnUNIX
    IN  [trLoBound |-> tzi_dm2s(ystart, int_min(tzi.stdOffs, tzi.dstOffs)),
         trHiBound |-> tzi_dm2s(ysnext, int_max(tzi.stdOffs, tzi.dstOffs)),
         ttDST     |-> tzi_dm2s(dayDST, tzi.dstRule.rt_ttloc + tzi.stdOffs),
         ttSTD     |-> tzi_dm2s(daySTD, tzi.stdRule.rt_ttloc + tzi.dstOffs)]

\* The context with the four frame fields assigned.
StoreFrame(c, f) ==
    [trLoBound |-> f.trLoBound, trHiBound |-> f.trHiBound,
     ttDST |-> f.ttDST, ttSTD |-> f.ttSTD, pTZI |-> c.pTZI]

\* A tzi_CtxUpdate without the test of the window: every query computes.
CtxUpdateAlways(c, tsfrom) ==
    StoreFrame(c, tzi_YearFrame(Zone(c.pTZI), tzi_FrameYear(tsfrom)))

\* The frame is recomputed only for a query outside the cached window.
tzi_CtxUpdate(c, tsfrom) ==
    IF (tsfrom < c.trLoBound - 86400) \/ (tsfrom >= c.trHiBound + 86400)
    THEN StoreFrame(c, tzi_YearFrame(Zone(c.pTZI), tzi_FrameYear(tsfrom)))
    ELSE c

\* memset(&ctx, 0, sizeof(ctx)); ctx.pTZI = &zone;
ZeroCtx(pTZI) ==
    [trLoBound |-> 0, trHiBound |-> 0, ttDST |-> 0, ttSTD |-> 0, pTZI |-> pTZI]

(***************************************************************************)
(* POSIX time zone engine: the conversion entry points.  Each yields the   *)
(* return value, the tziConvInfoT written, the context it leaves and the   *)
(* caller's range buffer.                                                  *)
(***************************************************************************)
Bit(b) == IF b THEN 1 ELSE 0

ConvInfo(isDst, isHrA, isHrB, offs) ==
    [isDst |-> isDst, isHrA |-> isHrA, isHrB |-> isHrB, offs |-> offs]

\* memset(into, 0, sizeof(*into))
NoInfo == ConvInfo(0, 0, 0, 0)

\* The caller's range buffer, zero-filled, of a call that has written none.
NoRange == <<0, 0>>

Returns(r, i, c, lohi) == [retv |-> r, into |-> i, ctx |-> c, tlohi |-> lohi]

Hints == {"None", "STD", "DST", "HrA", "HrB"}

\* tziGetInfoUtc2Local for a zone with real transitions, the frame updated.
Utc2LocalRules(c1, tzi, tsfrom) ==
    LET isDst  == IF c1.ttDST < c1.ttSTD
                  THEN (tsfrom >= c1.ttDST) /\ (tsfrom < c1.ttSTD)
                  ELSE (tsfrom >= c1.ttDST) \/ (tsfrom < c1.ttSTD)
        ttCrit == IF tzi.stdOffs >= tzi.dstOffs THEN c1.ttSTD ELSE c1.ttDST
        ttDiff == IF tzi.stdOffs >= tzi.dstOffs
                  THEN (tzi.stdOffs - tzi.dstOffs) * 60
                  ELSE (tzi.dstOffs - tzi.stdOffs) * 60
    IN  Returns(TRUE,
                ConvInfo(Bit(isDst),
                         Bit((ttCrit - ttDiff <= tsfrom) /\ (tsfrom < ttCrit)),
                         Bit((ttCrit <= tsfrom) /\ (tsfrom < ttCrit + ttDiff)),
                         -(IF isDst THEN tzi.dstOffs ELSE tzi.stdOffs) * 60),
                c1, NoRange)

Utc2LocalZone(c, tzi, tsfrom) ==
    IF tzi.dstRule.rt_month = 0
    THEN Returns(TRUE, ConvInfo(0, 0, 0, -tzi.stdOffs * 60), c, NoRange)
    ELSE IF tzi.stdRule.rt_month = 0
    THEN Returns(TRUE, ConvInfo(1, 0, 0, -tzi.dstOffs * 60), c, NoRange)
    ELSE Utc2LocalRules(tzi_CtxUpdate(c, tsfrom), tzi, tsfrom)

tziGetInfoUtc2Local(c, tsfrom) == Utc2LocalZone(c, Zone(c.pTZI), tsfrom)

\* The switch on the hint inside a discontinuity: the zone chosen for
\* STD / hrStd and for DST / hrDst, the hour flag set iff backstep.
HintSwitch(c1, tzi, hint, hrStd, hrDst, backstep) ==
    IF hint \in {"STD", hrStd}
    THEN Returns(TRUE,
                 ConvInfo(0, Bit(hrStd = "HrA" /\ backstep),
                          Bit(hrStd = "HrB" /\ backstep), tzi.stdOffs * 60),
                 c1, NoRange)
    ELSE IF hint \in {"DST", hrDst}
    THEN Returns(TRUE,
                 ConvInfo(1, Bit(hrDst = "HrA" /\ backstep),
                          Bit(hrDst = "HrB" /\ backstep), tzi.dstOffs * 60),
                 c1, NoRange)
    ELSE Returns(FALSE, NoInfo, c1, NoRange)

\* Outside both discontinuities.
Local2UtcPlain(c1, tzi, isDst) ==
    Returns(TRUE,
            ConvInfo(Bit(isDst), 0, 0, (IF isDst THEN tzi.dstOffs ELSE tzi.stdOffs) * 60),
            c1, NoRange)

\* tziGetInfoLocal2Utc for a zone with real transitions, the frame updated.
Local2UtcRules(c1, tzi, tsfrom, hint) ==
    LET a0  == c1.ttDST - tzi.stdOffs * 60
        b0  == c1.ttDST - tzi.dstOffs * 60
        a1  == c1.ttSTD - tzi.dstOffs * 60
        b1  == c1.ttSTD - tzi.stdOffs * 60
        \* order the critical ranges
        ttDstA == IF a0 > b0 THEN b0 ELSE a0
        ttDstB == IF a0 > b0 THEN a0 ELSE b0
        ttStdA == IF a0 > b0 THEN a1 ELSE b1
        ttStdB == IF a0 > b0 THEN b1 ELSE a1
    IN  IF (tsfrom >= ttDstA) /\ (tsfrom < ttDstB)
        THEN HintSwitch(c1, tzi, hint, "HrA", "HrB", tzi.dstOffs > tzi.stdOffs)
        ELSE IF (tsfrom >= ttStdA) /\ (tsfrom < ttStdB)
        THEN HintSwitch(c1, tzi, hint, "HrB", "HrA", tzi.dstOffs < tzi.stdOffs)
        ELSE IF c1.ttDST < c1.ttSTD
        THEN Local2UtcPlain(c1, tzi, (tsfrom >= ttDstB) /\ (tsfrom < ttStdA))
        ELSE Local2UtcPlain(c1, tzi, (tsfrom >= ttDstB) \/ (tsfrom < ttStdA))

Local2UtcZone(c, tzi, tsfrom, hint) ==
    IF tzi.dstRule.rt_month = 0
    THEN Returns(TRUE, ConvInfo(0, 0, 0, tzi.stdOffs * 60), c, NoRange)
    ELSE IF tzi.stdRule.rt_month = 0
    THEN Returns(TRUE, ConvInfo(1, 0, 0, tzi.dstOffs * 60), c, NoRange)
    ELSE Local2UtcRules(tzi_CtxUpdate(c, tsfrom + tzi.stdOffs * 60), tzi, tsfrom, hint)

tziGetInfoLocal2Utc(c, tsfrom, hint) == Local2UtcZone(c, Zone(c.pTZI), tsfrom, hint)

\* The clamping of the head and of the tail at a transition.
ClampLo(lo, tt, tsfrom) == IF (lo < tt) /\ (tsfrom > tt) THEN tt ELSE lo

ClampHi(hi, tt, tsfrom) == IF (hi > tt) /\ (tsfrom < tt) THEN tt ELSE hi

\* The cycle position in LOCAL time.
CycleOffset(tsfrom, offs, phi, period) ==
    LET csoff == TruncMod(tsfrom + offs + phi, period)
    IN  IF csoff < 0 THEN csoff + period ELSE csoff

AlignedClamp(u, tzi, lo, hi, tsfrom) ==
    IF HasBothRules(tzi)
    THEN Returns(TRUE, u.into, u.ctx,
                 <<ClampLo(ClampLo(lo, u.ctx.ttDST, tsfrom), u.ctx.ttSTD, tsfrom),
                   ClampHi(ClampHi(hi, u.ctx.ttDST, tsfrom), u.ctx.ttSTD, tsfrom)>>)
    ELSE Returns(TRUE, u.into, u.ctx, <<lo, hi>>)

AlignedFrom(u, tzi, lo, tsfrom, period) == AlignedClamp(u, tzi, lo, lo + period, tsfrom)

AlignedWith(u, tzi, tsfrom, period, phi) ==
    AlignedFrom(u, tzi, tsfrom - CycleOffset(tsfrom, u.into.offs, phi, period),
                tsfrom, period)

\* tlohi0, cvInfo0: what the caller's buffers held before the call.
tziAlignedLocalRange(tlohi0, cvInfo0, c, tsfrom, period, phi) ==
    IF ~((period > 0) /\ (period <= 7 * 86400))
    THEN Returns(FALSE, cvInfo0, c, tlohi0)
    ELSE AlignedWith(tziGetInfoUtc2Local(c, tsfrom), Zone(c.pTZI), tsfrom, period, phi)

(***************************************************************************)
(* The time zone state machine: one conversion context, created zeroed and *)
(* bound to a zone, mutated only through the three entry points.           *)
(***************************************************************************)
BaseYear == 2025

BaseFrame(tzi) == tzi_YearFrame(tzi, BaseYear)

NearDeltas == {-3601, -3600, -1, 0, 1, 3599, 3600}

SlackDeltas == {-86401, -86400, -1, 0, 86399, 86400}

\* UTC instants queried: around the transitions and the frame bounds of
\* BaseYear, and around the POSIX epoch.
FrameTimes(f) ==
    {f.ttDST + d : d \in NearDeltas} \cup {f.ttSTD + d : d \in NearDeltas}
    \cup {f.trLoBound + d : d \in SlackDeltas} \cup {f.trHiBound + d : d \in SlackDeltas}
    \cup SlackDeltas

UtcTimes(pTZI) ==
    IF HasBothRules(Zone(pTZI)) THEN FrameTimes(BaseFrame(Zone(pTZI))) ELSE {0, 86400}

\* Local wall clock readings queried: around both images of each transition,
\* and around the local epoch.
WallTimes(tzi, f) ==
    {tt - o * 60 + d : tt \in {f.ttDST, f.ttSTD}, o \in {tzi.stdOffs, tzi.dstOffs},
                       d \in {-3600, -1, 0, 1800}}
    \cup {d - tzi.stdOffs * 60 : d \in {-86400, 0, 1800, 5400, 86399}}

LocalTimes(pTZI) ==
    IF HasBothRules(Zone(pTZI)) THEN WallTimes(Zone(pTZI), BaseFrame(Zone(pTZI))) ELSE {0, 1800}

EdgeTimes(f) == {f.ttDST + d : d \in {-1, 0, 1, 7200}} \cup {f.ttSTD + d : d \in {-1, 0, 1, 7200}}

RangeTimes(pTZI) ==
    IF HasBothRules(Zone(pTZI)) THEN EdgeTimes(BaseFrame(Zone(pTZI))) \cup {0} ELSE {0, 1800}

Periods == {0, 1, 3600, 86400, 7 * 86400, 7 * 86400 + 1}

Phis == {0, 900}

Call(fn, tsfrom, hint, period, phi) ==
    [fn |-> fn, tsfrom |-> tsfrom, hint |-> hint, period |-> period, phi |-> phi]

NoCall == Call("none", 0, "None", 0, 0)

Idle == [fn |-> "idle"]

Init ==
    /\ ctx \in {ZeroCtx(p) : p \in ZoneNames}
    /\ call = NoCall
    /\ retv = FALSE
    /\ into = NoInfo
    /\ tlohi = NoRange
    /\ calc = Idle

\* The effect of one call on the program state.
Done(c, r) ==
    /\ call' = c
    /\ retv' = r.retv
    /\ into' = r.into
    /\ ctx' = r.ctx
    /\ tlohi' = r.tlohi
    /\ UNCHANGED calc

Utc2Local ==
    \E t \in UtcTimes(ctx.pTZI) :
        Done(Call("Utc2Local", t, "None", 0, 0), tziGetInfoUtc2Local(ctx, t))

Local2Utc ==
    \E t \in LocalTimes(ctx.pTZI), h \in Hints :
        Done(Call("Local2Utc", t, h, 0, 0), tziGetInfoLocal2Utc(ctx, t, h))

AlignedLocalRange ==
    \E t \in RangeTimes(ctx.pTZI), period \in Periods, phi \in Phis :
        Done(Call("AlignedLocalRange", t, "None", period, phi),
             tziAlignedLocalRange(NoRange, into, ctx, t, period, phi))

Next == Utc2Local \/ Local2Utc \/ AlignedLocalRange

Spec == Init /\ [][Next]_vars

(***************************************************************************)
(* Properties of the time zone engine                                      *)
(***************************************************************************)
\* The civil (UTC) year an instant falls into, and the zone's transitions
\* of that year.
CivilYear(t) == ucal_DaysToYearsGD(MaskDiv(t, 86400) + UCAL_rdnUNIX).q + 1

TrueFrame(tzi, t) == tzi_YearFrame(tzi, CivilYear(t))

BoundZone == Zone(ctx.pTZI)

\* A local reading t inside the half-open interval between the two local
\* images of the transition instant tt.
InDiscontinuity(tzi, tt, t) ==
    /\ t >= int_min(tt - tzi.stdOffs * 60, tt - tzi.dstOffs * 60)
    /\ t <  int_max(tt - tzi.stdOffs * 60, tt - tzi.dstOffs * 60)

\* What C2 demands of a call inside the discontinuity of a transition;
\* before / after: the isDst of the zone in force before / after it.
HintResolved(tzi, before, after, backstep) ==
    /\ (call.hint = "None") => ~retv
    /\ (call.hint = "STD") => retv /\ into.isDst = 0 /\ into.offs = 60 * tzi.stdOffs
    /\ (call.hint = "DST") => retv /\ into.isDst = 1 /\ into.offs = 60 * tzi.dstOffs
    /\ (call.hint = "HrA") => retv /\ into.isDst = before
    /\ (call.hint = "HrB") => retv /\ into.isDst = after
    /\ (into.isHrA = 1) => backstep /\ into.isDst = before
    /\ (into.isHrB = 1) => backstep /\ into.isDst = after
    /\ ~backstep => into.isHrA = 0 /\ into.isHrB = 0

Local2UtcAsClaimed(tzi, f, t) ==
    IF InDiscontinuity(tzi, f.ttDST, t)
    THEN HintResolved(tzi, 0, 1, tzi.dstOffs > tzi.stdOffs)
    ELSE IF InDiscontinuity(tzi, f.ttSTD, t)
    THEN HintResolved(tzi, 1, 0, tzi.dstOffs < tzi.stdOffs)
    ELSE retv /\ into.isHrA = 0 /\ into.isHrB = 0

\* C2: for a zone with both rules, a local timestamp inside the STD->DST or
\* the DST->STD discontinuity fails for hint None and is resolved by the
\* hints STD / DST / HrA / HrB, the hour flags set only where the wall clock
\* steps backward; every timestamp outside both intervals succeeds for
\* every hint with both flags 0.
C2_Local2UtcHints ==
    (call.fn = "Local2Utc" /\ HasBothRules(BoundZone))
        => Local2UtcAsClaimed(BoundZone,
                              TrueFrame(BoundZone, call.tsfrom + BoundZone.stdOffs * 60),
                              call.tsfrom)

Utc2LocalAsClaimed(tzi, f, t) ==
    LET isDst == IF f.ttDST < f.ttSTD
                 THEN (t >= f.ttDST) /\ (t < f.ttSTD)
                 ELSE (t >= f.ttDST) \/ (t < f.ttSTD)
        crit  == IF tzi.stdOffs >= tzi.dstOffs THEN f.ttSTD ELSE f.ttDST
        D     == 60 * (IF tzi.stdOffs >= tzi.dstOffs THEN tzi.stdOffs - tzi.dstOffs
                                                     ELSE tzi.dstOffs - tzi.stdOffs)
    IN  /\ into.isDst = Bit(isDst)
        /\ into.offs = -60 * (IF isDst THEN tzi.dstOffs ELSE tzi.stdOffs)
        /\ into.isHrA = Bit((crit - D <= t) /\ (t < crit))
        /\ into.isHrB = Bit((crit <= t) /\ (t < crit + D))

\* C3: for a zone with both rules tziGetInfoUtc2Local reports isDst, offs,
\* isHrA and isHrB as the transitions of the year of t determine them; a
\* zone without dstRule is always STD, one without stdRule always DST.
C3_Utc2LocalInfo ==
    (call.fn = "Utc2Local")
        => /\ retv
           /\ IF BoundZone.dstRule.rt_month = 0
              THEN into.isDst = 0 /\ into.offs = -60 * BoundZone.stdOffs
              ELSE IF BoundZone.stdRule.rt_month = 0
              THEN into.isDst = 1 /\ into.offs = -60 * BoundZone.dstOffs
              ELSE Utc2LocalAsClaimed(BoundZone, TrueFrame(BoundZone, call.tsfrom),
                                      call.tsfrom)

\* The same call on a freshly zeroed context bound to the same zone.
OnFreshCtx(c) ==
    CASE c.fn = "Utc2Local" -> tziGetInfoUtc2Local(ZeroCtx(ctx.pTZI), c.tsfrom)
      [] c.fn = "Local2Utc" -> tziGetInfoLocal2Utc(ZeroCtx(ctx.pTZI), c.tsfrom, c.hint)

SameAnswer(r) == (retv = r.retv) /\ (into = r.into)

\* C4: the year-frame cache is only an optimization: after any sequence of
\* calls on one context, a conversion returns the same success value and
\* the same ConvInfo as on a freshly zeroed context bound to the same zone.
C4_CacheIsTransparent ==
    (call.fn \in {"Utc2Local", "Local2Utc"} /\ HasBothRules(BoundZone))
        => SameAnswer(OnFreshCtx(call))

Transitions(c) == IF HasBothRules(Zone(c.pTZI)) THEN {c.ttDST, c.ttSTD} ELSE {}

\* The unclamped cycle start: the range start before any transition raised it.
CycleStart(t, offs, phi, period) == t - ((t + offs + phi) % period)

RangeAsClaimed(t, period, phi, lo, hi, lo0, tts) ==
    /\ retv
    /\ lo <= t /\ t < hi
    /\ hi - lo <= period
    /\ \A tt \in tts : ~(lo < tt /\ tt < hi)
    /\ \A tt \in tts : (lo0 < tt /\ tt <= t) => lo >= tt
    /\ \A tt \in tts : (t < tt /\ tt < lo0 + period) => hi <= tt
    /\ (\A tt \in tts : ~(lo0 < tt /\ tt < lo0 + period))
          => (lo + into.offs + phi) % period = 0 /\ hi = lo + period

\* C8: for 1 <= period <= 7*86400 tziAlignedLocalRange succeeds with
\* lo <= t < hi, hi - lo <= period and no transition strictly between lo and
\* hi: lo is raised to a transition tt whenever lo < tt <= t, hi lowered to
\* one whenever t < tt < hi; unclamped, the range is a whole aligned cycle.
\* For any other period it returns false.
C8_AlignedRange ==
    (call.fn = "AlignedLocalRange")
        => IF call.period >= 1 /\ call.period <= 7 * 86400
           THEN RangeAsClaimed(call.tsfrom, call.period, call.phi, tlohi[1], tlohi[2],
                               CycleStart(call.tsfrom, into.offs, call.phi, call.period),
                               Transitions(ctx))
           ELSE ~retv

(***************************************************************************)
(* The Gregorian conversions as a calculator: an RDN is split into a date  *)
(* and merged back, a date is merged into an RDN and split again.          *)
(***************************************************************************)
RdnLimit == 5 * (10 ^ 6)

GdWindow == 400

GdStrides == 500

\* Cycle and century boundaries, the epoch and both ends of the range.
GdAnchors ==
    {-RdnLimit + GdWindow, RdnLimit - GdWindow, 0, 36524, 73048, 109572,
     146097, -146097, 730486, 719163, -4 * 146097, 12 * 146097}

RdnInputs ==
    {a + d : a \in GdAnchors, d \in -GdWindow .. GdWindow}
    \cup {k * 9973 : k \in -GdStrides .. GdStrides}

GdYears ==
    {-13688, -4800, -401, -400, -100, -4, -1, 0, 1, 4, 100, 400, 1600, 1900,
     1970, 2000, 2024, 2025, 2100, 13689}

\* Length of a month of the Gregorian calendar.
DaysInMonthGD(y, m) ==
    IF m = 2 THEN (IF ucal_IsLeapYearGD(y) THEN 29 ELSE 28)
    ELSE IF m \in {4, 6, 9, 11} THEN 30 ELSE 31

DateInputs ==
    {ymd \in GdYears \X (1 .. 12) \X (1 .. 31) : ymd[3] <= DaysInMonthGD(ymd[1], ymd[2])}

NoDate == [ok |-> FALSE]

GdJob(src, step, r, ymd, date, back) ==
    [fn |-> "GD", src |-> src, step |-> step, r |-> r, ymd |-> ymd,
     date |-> date, back |-> back]

TzUnused ==
    /\ ctx = ZeroCtx("FixedStd")
    /\ call = NoCall
    /\ retv = FALSE
    /\ into = NoInfo
    /\ tlohi = NoRange

InitGD ==
    /\ TzUnused
    /\ calc \in {GdJob("rdn", 0, r, <<0, 0, 0>>, NoDate, 0) : r \in RdnInputs}
          \cup {GdJob("date", 0, 0, ymd, NoDate, 0) : ymd \in DateInputs}

RdnToDateGD ==
    /\ (calc.src = "rdn" /\ calc.step = 0) \/ (calc.src = "date" /\ calc.step = 1)
    /\ calc' = [calc EXCEPT !.step = @ + 1, !.date = ucal_RdnToDateGD(calc.r)]
    /\ UNCHANGED tzVars

DateToRdnGD ==
    /\ UNCHANGED tzVars
    /\ \/ /\ calc.src = "date" /\ calc.step = 0
          /\ calc' = [calc EXCEPT !.step = 1,
                        !.r = ucal_DateToRdnGD(calc.ymd[1], calc.ymd[2], calc.ymd[3])]
       \/ /\ calc.src = "rdn" /\ calc.step = 1 /\ calc.date.ok
          /\ calc' = [calc EXCEPT !.step = 2,
                        !.back = ucal_DateToRdnGD(calc.date.dYear, calc.date.dMonth,
                                                  calc.date.dMDay)]

NextGD == RdnToDateGD \/ DateToRdnGD

SpecGD == InitGD /\ [][NextGD]_vars

\* C1: every RDN r in [-5,000,000, +5,000,000] splits successfully into a
\* date whose RDN is r again; and every valid Gregorian date (y, m, d) with
\* an RDN in that range is returned exactly by the split of its RDN, with
\* dYDay = r - YearStartGD(y) + 1 and the leap flag set iff IsLeapYearGD(y).
C1_GregorianRoundTrip ==
    /\ (calc.src = "rdn" /\ calc.step >= 1 /\ calc.r \in -RdnLimit .. RdnLimit)
          => calc.date.ok
    /\ (calc.src = "rdn" /\ calc.step = 2 /\ calc.r \in -RdnLimit .. RdnLimit)
          => calc.back = calc.r
    /\ (calc.src = "date" /\ calc.step = 2 /\ calc.r \in -RdnLimit .. RdnLimit)
          => /\ calc.date.ok
             /\ <<calc.date.dYear, calc.date.dMonth, calc.date.dMDay>> = calc.ymd
             /\ calc.date.dYDay = calc.r - ucal_YearStartGD(calc.ymd[1]) + 1
             /\ calc.date.fLeap = ucal_IsLeapYearGD(calc.ymd[1])

\* Both directions have run: the leap day of 2024 came back from its RDN,
\* and the lowest RDN of the range came back from its date.
C1_Witness ==
    \/ /\ calc.src = "date" /\ calc.step = 2 /\ calc.ymd = <<2024, 2, 29>>
       /\ calc.date.ok /\ calc.date.dYDay = 60
    \/ /\ calc.src = "rdn" /\ calc.step = 2 /\ calc.r = -RdnLimit
       /\ calc.back = -RdnLimit

(***************************************************************************)
(* The weekday shifts as a calculator: one shift applied to a day number   *)
(* and a weekday, errno cleared before the call.                           *)
(***************************************************************************)
WdWindow == 9

WdRdns ==
    {INT32_MIN + d : d \in 0 .. WdWindow} \cup {INT32_MAX - d : d \in 0 .. WdWindow}
    \cup (-WdWindow .. WdWindow)

WdDays == -8 .. 15

WdJob(op, rdn, wd, r) ==
    [fn |-> "Wd", op |-> op, rdn |-> rdn, wd |-> wd, res |-> r.rdn, erange |-> r.erange]

InitWd ==
    /\ TzUnused
    /\ calc \in {WdJob("none", rdn, wd, [rdn |-> 0, erange |-> FALSE]) :
                    rdn \in WdRdns, wd \in WdDays}

WdCalled(op, r) ==
    /\ calc.op = "none"
    /\ calc' = WdJob(op, calc.rdn, calc.wd, r)
    /\ UNCHANGED tzVars

WdGT == WdCalled("WdGT", ucal_WdGT(calc.rdn, calc.wd))

WdGE == WdCalled("WdGE", ucal_WdGE(calc.rdn, calc.wd))

WdLE == WdCalled("WdLE", ucal_WdLE(calc.rdn, calc.wd))

WdLT == WdCalled("WdLT", ucal_WdLT(calc.rdn, calc.wd))

WdNear == WdCalled("WdNear", ucal_WdNear(calc.rdn, calc.wd))

NextWd == WdGT \/ WdGE \/ WdLE \/ WdLT \/ WdNear

SpecWd == InitWd /\ [][NextWd]_vars

\* (a - b) mod 7, on the residues: the difference itself may exceed 32 bits.
DiffMod7(a, b) == ((a % 7) - (b % 7)) % 7

\* The target lies s days after (before) the day: reported exactly if it is
\* a 32-bit day number, else as the extremum with ERANGE.
ShiftedUp(s) ==
    IF calc.rdn > INT32_MAX - s
    THEN calc.res = INT32_MAX /\ calc.erange
    ELSE calc.res = calc.rdn + s

ShiftedDown(s) ==
    IF calc.rdn < INT32_MIN + s
    THEN calc.res = INT32_MIN /\ calc.erange
    ELSE calc.res = calc.rdn - s

\* Signed distance, in -3 .. 3, to the nearest day with the weekday.
NearDist(rdn, wd) == DiffMod7(wd + 3, rdn) - 3

\* C9: a weekday shift whose exact target exceeds INT32_MAX returns
\* INT32_MAX with ERANGE, one whose exact target is below INT32_MIN returns
\* INT32_MIN with ERANGE, and every other call returns the exact target;
\* no call returns a wrapped-around value.
C9_WdOverflowDetected ==
    /\ (calc.op = "WdGE") => ShiftedUp(DiffMod7(calc.wd, calc.rdn))
    /\ (calc.op = "WdGT") => ShiftedUp(DiffMod7(calc.wd - 1, calc.rdn) + 1)
    /\ (calc.op = "WdLE") => ShiftedDown(DiffMod7(calc.rdn, calc.wd))
    /\ (calc.op = "WdLT") => ShiftedDown(DiffMod7(calc.rdn, calc.wd + 1) + 1)
    /\ (calc.op = "WdNear")
          => IF NearDist(calc.rdn, calc.wd) >= 0
             THEN ShiftedUp(NearDist(calc.rdn, calc.wd))
             ELSE ShiftedDown(-NearDist(calc.rdn, calc.wd))

\* The claim's own example: ucal_WdLT(INT32_MIN, wd) has been called.
C9_Witness == calc.op = "WdLT" /\ calc.rdn = INT32_MIN

(***************************************************************************)
(* NTP unfolding.  A time_t is 64 bits wide: it is held as its upper word  *)
(* (signed: the count of 2^32-second eras) and its lower word (a uint32_t, *)
(* by bit pattern).  The branch for a 32-bit time_t is not taken.          *)
(***************************************************************************)
UCAL_sysPhiNTP == 2085978496

Time64(hi, lo) == [hi |-> hi, lo |-> lo]

\* a < b and a <= b for two 64-bit times.
Lt64(a, b) == a.hi < b.hi \/ (a.hi = b.hi /\ UGt32(b.lo, a.lo))

Le64(a, b) == a.hi < b.hi \/ (a.hi = b.hi /\ ~UGt32(a.lo, b.lo))

\* A wrong variant of the expansion base: the pivot itself.
NtpBaseAtPivot(pivot) == pivot

\* tbase: the pivot minus 2^31 for a pivot above INT32_MAX, else the epoch.
NtpBase(pivot) ==
    IF Lt64(Time64(0, INT32_MAX), pivot)
    THEN IF pivot.lo < 0
         THEN Time64(pivot.hi, (pivot.lo + INT32_MAX) + 1)
         ELSE Time64(pivot.hi - 1, pivot.lo + INT32_MIN)
    ELSE Time64(0, 0)

\* secs += UCAL_sysPhiNTP; secs -= tbase;  (mod 2^32)
NtpCycle(secs, tbase) == WrapSub32(WrapAdd32(secs, UCAL_sysPhiNTP), tbase.lo)

NtpCarry(tbase, lo) == IF UGt32(tbase.lo, lo) THEN 1 ELSE 0

\* return tbase + secs: a signed 64-bit addition.  Where the sum exceeds
\* INT64_MAX the behaviour is undefined: the build may wrap or saturate.
NtpSum(tbase, lo) ==
    IF tbase.hi = INT32_MAX /\ NtpCarry(tbase, lo) = 1
    THEN {Time64(INT32_MIN, lo), Time64(INT32_MAX, -1)}
    ELSE {Time64(tbase.hi + NtpCarry(tbase, lo), lo)}

NtpExpand(tbase, secs) == NtpSum(tbase, WrapAdd32(tbase.lo, NtpCycle(secs, tbase)))

\* The set of values the call may return.
ucal_NtpToTime(secs, pivot) == NtpExpand(NtpBase(pivot), secs)

NtpSpread == 2

NtpWords ==
    {WrapAdd32(a, d) : a \in {0, INT32_MIN, -UCAL_sysPhiNTP, INT32_MAX - UCAL_sysPhiNTP},
                       d \in -NtpSpread .. NtpSpread}

NtpEras == {INT32_MIN, -1, 0, 1, 2, INT32_MAX}

NtpJob(step, secs, pivot, res) ==
    [fn |-> "Ntp", step |-> step, secs |-> secs, pivot |-> pivot, res |-> res]

InitNtp ==
    /\ TzUnused
    /\ calc \in {NtpJob(0, secs, Time64(hi, lo), Time64(0, 0)) :
                    secs \in NtpWords, hi \in NtpEras, lo \in NtpWords}

NtpToTime ==
    /\ calc.fn = "Ntp"
    /\ calc.step = 0
    /\ \E res \in ucal_NtpToTime(calc.secs, calc.pivot) :
           calc' = [calc EXCEPT !.step = 1, !.res = res]
    /\ UNCHANGED tzVars

\* (uint32_t)tt - (uint32_t)UCAL_sysPhiNTP
ucal_TimeToNtp(tt) == WrapSub32(tt.lo, UCAL_sysPhiNTP)

TimeToNtp ==
    /\ calc.fn = "Ntp"
    /\ calc.step = 1
    /\ calc' = [fn |-> "Ntp", step |-> 2, secs |-> calc.secs, pivot |-> calc.pivot,
                res |-> calc.res, ntp |-> ucal_TimeToNtp(calc.res)]
    /\ UNCHANGED tzVars

NextNtp == NtpToTime \/ TimeToNtp

SpecNtp == InitNtp /\ [][NextNtp]_vars

\* pivot - 2^31 and pivot + 2^31, where a time_t can hold them.
HasBelow(p) == ~(p.hi = INT32_MIN /\ p.lo >= 0)

Below(p) ==
    IF p.lo < 0 THEN Time64(p.hi, (p.lo + INT32_MAX) + 1)
                ELSE Time64(p.hi - 1, p.lo + INT32_MIN)

HasAbove(p) == ~(p.hi = INT32_MAX /\ p.lo < 0)

Above(p) ==
    IF p.lo < 0 THEN Time64(p.hi + 1, (p.lo + INT32_MAX) + 1)
                ELSE Time64(p.hi, p.lo + INT32_MIN)

\* t in [pivot - 2^31, pivot + 2^31)
AroundPivot(t, p) ==
    /\ HasBelow(p) => Le64(Below(p), t)
    /\ HasAbove(p) => Lt64(t, Above(p))

Upper ==
    {"A", "B", "C", "D", "E", "F", "G", "H", "I", "J", "K", "L", "M",
     "N", "O", "P", "Q", "R", "S", "T", "U", "V", "W", "X", "Y", "Z"}

DigitChars == <<"0", "1", "2", "3", "4", "5", "6", "7", "8", "9">>

isdigit(xch) == \E i \in 1 .. 10 : DigitChars[i] = xch

isupper(xch) == xch \in Upper

\* xch - '0'
DigitValue(xch) == (CHOOSE i \in 1 .. 10 : DigitChars[i] = xch) - 1

tzi_PeekChar(s, head) == IF head # Len(s) + 1 THEN s[head] ELSE "EOF"

\* The cursor after the call; the call succeeded iff it moved (xch is never
\* EOF in this program).
tzi_ParseChar(s, head, xch) ==
    IF head # Len(s) + 1 /\ s[head] = xch THEN head + 1 ELSE head

\* sizeof(dest->stdName) - 1: the bytes of a name that are stored.
NameSize == 11

Store(name, xch) == IF Len(name) < NameSize THEN Append(name, xch) ELSE name

\* The while loop over a <quoted> name, entered with head on the '<'.
RECURSIVE QuotedLoop(_, _, _)
QuotedLoop(s, head, name) ==
    IF head + 1 # Len(s) + 1 /\ s[head + 1] # ">"
    THEN IF s[head + 1] = "<"
         THEN [head |-> head + 1, name |-> name]
         ELSE QuotedLoop(s, head + 1, Store(name, s[head + 1]))
    ELSE [head |-> head + 1, name |-> name]

\* The do-while loop over an uppercase name, entered with head on a letter.
RECURSIVE UpperLoop(_, _, _)
UpperLoop(s, head, name) ==
    IF head + 1 # Len(s) + 1 /\ isupper(s[head + 1])
    THEN UpperLoop(s, head + 1, Store(name, s[head]))
    ELSE [head |-> head + 1, name |-> Store(name, s[head])]

\* The cursor moves only on success; the bytes stored stay in any case.
NameParsed(valid, head0, r) ==
    [ok |-> valid, head |-> IF valid THEN r.head ELSE head0, name |-> r.name]

QuotedName(s, head0, r) ==
    IF r.head # Len(s) + 1 /\ s[r.head] = ">"
    THEN NameParsed(TRUE, head0, [head |-> r.head + 1, name |-> r.name])
    ELSE NameParsed(FALSE, head0, r)

UpperName(head0, r) == NameParsed(3 <= Len(r.name), head0, r)

tzi_ParseName(s, head) ==
    IF head = Len(s) + 1
    THEN NameParsed(FALSE, head, [head |-> head, name |-> <<>>])
    ELSE IF s[head] = "<"
    THEN QuotedName(s, head, QuotedLoop(s, head, <<>>))
    ELSE IF isupper(s[head])
    THEN UpperName(head, UpperLoop(s, head, <<>>))
    ELSE NameParsed(FALSE, head, [head |-> head, name |-> <<>>])

\* A sign that is skipped but not applied.
OptSignDropped(s, head) ==
    IF tzi_PeekChar(s, head) \in {"-", "+"} THEN [nsig |-> FALSE, head |-> head + 1]
    ELSE [nsig |-> FALSE, head |-> head]

tzi_ParseOptSign(s, head) ==
    IF tzi_PeekChar(s, head) = "-" THEN [nsig |-> TRUE, head |-> head + 1]
    ELSE IF tzi_PeekChar(s, head) = "+" THEN [nsig |-> FALSE, head |-> head + 1]
    ELSE [nsig |-> FALSE, head |-> head]

\* The while loop of tzi_ParseNum: it stops once tmp has reached 100.
RECURSIVE NumLoop(_, _, _, _)
NumLoop(s, head, tmp, ret) ==
    IF 100 > tmp /\ isdigit(tzi_PeekChar(s, head))
    THEN NumLoop(s, head + 1, 10 * tmp + DigitValue(s[head]), TRUE)
    ELSE [ok |-> ret, val |-> tmp, head |-> head]

tzi_ParseNum(s, head) == NumLoop(s, head, 0, FALSE)

\* What a step of the parser yields: success, the value stored, the cursor.
Parsed(ok, val, head) == [ok |-> ok, val |-> val, head |-> head]

\* The range check and the merge of tmpHMS at the end of tzi_ParseTime.
TimeMerged(valid, nsig, mins, head) ==
    Parsed(valid, IF nsig THEN -(IF valid THEN mins ELSE 0) ELSE (IF valid THEN mins ELSE 0), head)

\* A time whose hours are not checked against the limit.
TimeHoursUnchecked(nsig, isRuleTime, h, mi, sec, head) ==
    TimeMerged((60 > mi) /\ (0 = sec), nsig, 60 * h + mi, head)

TimeChecked(nsig, isRuleTime, h, mi, sec, head) ==
    TimeMerged(((IF isRuleTime THEN 168 ELSE 24) > h) /\ (60 > mi) /\ (0 = sec),
               nsig, 60 * h + mi, head)

TimeSeconds(nsig, isRuleTime, h, mi, n2) ==
    IF n2.ok THEN TimeChecked(nsig, isRuleTime, h, mi, n2.val, n2.head)
             ELSE TimeMerged(FALSE, nsig, 0, n2.head)

TimeMinutes(s, nsig, isRuleTime, h, n1) ==
    IF ~n1.ok THEN TimeMerged(FALSE, nsig, 0, n1.head)
    ELSE IF tzi_ParseChar(s, n1.head, ":") = n1.head
    THEN TimeChecked(nsig, isRuleTime, h, n1.val, 0, n1.head)
    ELSE TimeSeconds(nsig, isRuleTime, h, n1.val, tzi_ParseNum(s, n1.head + 1))

TimeHours(s, nsig, isRuleTime, n0) ==
    IF ~n0.ok THEN TimeMerged(FALSE, nsig, 0, n0.head)
    ELSE IF tzi_ParseChar(s, n0.head, ":") = n0.head
    THEN TimeChecked(nsig, isRuleTime, n0.val, 0, 0, n0.head)
    ELSE TimeMinutes(s, nsig, isRuleTime, n0.val, tzi_ParseNum(s, n0.head + 1))

TimeSigned(s, isRuleTime, sg) ==
    TimeHours(s, sg.nsig, isRuleTime, tzi_ParseNum(s, sg.head))

tzi_ParseTime(s, head, isRuleTime) ==
    TimeSigned(s, isRuleTime, tzi_ParseOptSign(s, head))

\* tzi_ParseRule, its three rule types; dest: the rule before the call (*into).
RuleM(dest, mon, wk, m2) ==
    IF m2.ok /\ (1 <= mon) /\ (12 >= mon) /\ (1 <= wk) /\ (5 >= wk) /\ (7 >= m2.val)
    THEN Parsed(TRUE, [dest EXCEPT !.rt_month = mon, !.rt_mdmw = wk,
                                   !.rt_wday = ((m2.val + 6) % 7) + 1], m2.head)
    ELSE Parsed(FALSE, dest, m2.head)

RuleMWeek(s, dest, mon, m1) ==
    IF m1.ok /\ tzi_ParseChar(s, m1.head, ".") # m1.head
    THEN RuleM(dest, mon, m1.val, tzi_ParseNum(s, m1.head + 1))
    ELSE Parsed(FALSE, dest, m1.head)

RuleMMonth(s, dest, m0) ==
    IF m0.ok /\ tzi_ParseChar(s, m0.head, ".") # m0.head
    THEN RuleMWeek(s, dest, m0.val, tzi_ParseNum(s, m0.head + 1))
    ELSE Parsed(FALSE, dest, m0.head)

RuleJDate(dest, md, head) ==
    Parsed(TRUE, [dest EXCEPT !.rt_month = md.q + 1, !.rt_mdmw = md.r + 1, !.rt_wday = 0],
           head)

RuleJ(dest, j) ==
    IF j.ok /\ (1 <= j.val) /\ (365 >= j.val)
    THEN RuleJDate(dest, ucal_DaysToMonth(j.val - 1, FALSE), j.head)
    ELSE Parsed(FALSE, dest, j.head)

RuleN(dest, n) ==
    IF n.ok /\ (365 >= n.val)
    THEN Parsed(TRUE, [dest EXCEPT !.rt_month = 1, !.rt_mdmw = n.val + 1, !.rt_wday = 0],
                n.head)
    ELSE Parsed(FALSE, dest, n.head)

RuleDate(s, head, dest) ==
    IF tzi_PeekChar(s, head) = "M" THEN RuleMMonth(s, dest, tzi_ParseNum(s, head + 1))
    ELSE IF tzi_PeekChar(s, head) = "J" THEN RuleJ(dest, tzi_ParseNum(s, head + 1))
    ELSE IF isdigit(tzi_PeekChar(s, head)) THEN RuleN(dest, tzi_ParseNum(s, head))
    ELSE Parsed(FALSE, dest, head)

RuleTimed(rule, tm) == Parsed(tm.ok, [rule EXCEPT !.rt_ttloc = tm.val], tm.head)

RuleTime(s, r) ==
    IF r.ok /\ tzi_ParseChar(s, r.head, "/") # r.head
    THEN RuleTimed(r.val, tzi_ParseTime(s, r.head + 1, TRUE))
    ELSE Parsed(r.ok, [r.val EXCEPT !.rt_ttloc = 120], r.head)

tzi_ParseRule(s, head, dest) == RuleTime(s, RuleDate(s, head, dest))

\* A tziPosixZoneT with its names.
ParsedZone(stdName, dstName, stdOffs, dstOffs, dstRule, stdRule) ==
    [stdName |-> stdName, dstName |-> dstName, stdOffs |-> stdOffs, dstOffs |-> dstOffs,
     dstRule |-> dstRule, stdRule |-> stdRule]

\* The POSIX (U.S.) default rules.
defRules == <<PosixRule(3, 2, 7, 120), PosixRule(11, 1, 7, 120)>>

\* return valid ? ctx.spHead : NULL, and the zone left in *into.
FromReturn(valid, zone, head) == [ret |-> IF valid THEN head ELSE 0, zone |-> zone]

\* A return that leaves the stdRule of an all-year DST zone as parsed.
AllYearKept(valid, zone, head) == FromReturn(valid, zone, head)

FromAllYear(valid, zone, head) ==
    IF valid /\ zone.dstRule = PosixRule(1, 1, 0, 0)
    THEN FromReturn(valid, [zone EXCEPT !.stdRule = NoRule], head)
    ELSE FromReturn(valid, zone, head)

FromStdRule(zone, r) == FromAllYear(r.ok, [zone EXCEPT !.stdRule = r.val], r.head)

FromDstRule(s, zone, r) ==
    IF r.ok /\ tzi_ParseChar(s, r.head, ",") # r.head
    THEN FromStdRule([zone EXCEPT !.dstRule = r.val],
                     tzi_ParseRule(s, r.head + 1, zone.stdRule))
    ELSE FromReturn(FALSE, [zone EXCEPT !.dstRule = r.val], r.head)

\* For the transition rules, either none or two must be given.
FromRules(s, zone, head) ==
    IF tzi_PeekChar(s, head) = ","
    THEN FromDstRule(s, zone, tzi_ParseRule(s, head + 1, zone.dstRule))
    ELSE FromAllYear(TRUE, zone, head)

\* The optional DST offset: on failure the cursor is restored.
FromDstOffs(s, stdName, dstName, stdOffs, head, tm) ==
    IF tm.ok
    THEN FromRules(s, ParsedZone(stdName, dstName, stdOffs, tm.val,
                                 defRules[1], defRules[2]), tm.head)
    ELSE FromRules(s, ParsedZone(stdName, dstName, stdOffs, stdOffs - 60,
                                 defRules[1], defRules[2]), head)

FromDstName(s, stdName, stdOffs, head, dn) ==
    IF dn.ok
    THEN FromDstOffs(s, stdName, dn.name, stdOffs, dn.head,
                     tzi_ParseTime(s, dn.head, FALSE))
    ELSE FromReturn(TRUE, ParsedZone(stdName, dn.name, stdOffs, 0, NoRule, NoRule), head)

FromStdOffs(s, stdName, tm) ==
    IF tm.ok
    THEN FromDstName(s, stdName, tm.val, tm.head, tzi_ParseName(s, tm.head))
    ELSE FromReturn(FALSE, ParsedZone(stdName, <<>>, tm.val, 0, NoRule, NoRule), tm.head)

FromStdName(s, nm) ==
    IF nm.ok
    THEN FromStdOffs(s, nm.name, tzi_ParseTime(s, nm.head, FALSE))
    ELSE FromReturn(FALSE, ParsedZone(nm.name, <<>>, 0, 0, NoRule, NoRule), nm.head)

\* tail = NULL: the text ends at its NUL byte.
tziFromPosixSpec(s) == FromStdName(s, tzi_ParseName(s, 1))

(***************************************************************************)
(* The parser as a calculator: a zone text is composed from its parts      *)
(* (names, offsets, rules), written out in characters and parsed.          *)
(***************************************************************************)
\* The decimal digits of a number, optionally zero-padded to two places.
RECURSIVE Dec(_)
Dec(n) == IF n < 10 THEN <<DigitChars[n + 1]>>
                    ELSE Dec(n \div 10) \o <<DigitChars[(n % 10) + 1]>>

Num(n, pad) == IF pad /\ n < 10 THEN <<"0">> \o Dec(n) ELSE Dec(n)

\* [sign] h[:m[:s]]; no fields: the time is absent.
Time(sg, hms, pad) == [sg |-> sg, hms |-> hms, pad |-> pad]

NoTime == Time(<<>>, <<>>, FALSE)

TimeText(t) ==
    IF t = NoTime THEN <<>>
    ELSE t.sg \o Num(t.hms[1], t.pad)
         \o (IF Len(t.hms) >= 2 THEN <<":">> \o Num(t.hms[2], t.pad) ELSE <<>>)
         \o (IF Len(t.hms) >= 3 THEN <<":">> \o Num(t.hms[3], t.pad) ELSE <<>>)

\* A rule of kind "M" (mon.wk.dow), "J" (1-based day) or "N" (0-based day).
Rule(k, a, tm) == [k |-> k, a |-> a, tm |-> tm]

RuleText(r) ==
    (IF r.k = "M" THEN <<"M">> \o Dec(r.a[1]) \o <<".">> \o Dec(r.a[2]) \o <<".">> \o Dec(r.a[3])
     ELSE IF r.k = "J" THEN <<"J">> \o Dec(r.a[1])
     ELSE Dec(r.a[1]))
    \o (IF r.tm = NoTime THEN <<>> ELSE <<"/">> \o TimeText(r.tm))

RulesText(rules) ==
    IF Len(rules) = 0 THEN <<>>
    ELSE IF Len(rules) = 1 THEN <<",">> \o RuleText(rules[1])
    ELSE <<",">> \o RuleText(rules[1]) \o <<",">> \o RuleText(rules[2])

\* A zone text and the parts it was composed from.
ZoneText(std, so, dst, do, rules) ==
    [std |-> std, so |-> so, dst |-> dst, do |-> do, rules |-> rules,
     text |-> std \o TimeText(so) \o dst \o TimeText(do) \o RulesText(rules)]

GoodNames ==
    {<<"C", "E", "T">>, <<"<", "G", "M", "T", "+", "1", ">">>, <<"<", "C", "E", "S", "T", ">">>,
     <<"C", "E", "S", "T">>, <<"W", "E", "S", "T", "E", "U", "R", "O", "P", "E", "A", "N">>}

\* Missing, too short, unterminated, lower case.
BadNames == {<<>>, <<"C", "E">>, <<"<", "C", "E", "T">>, <<"c", "e", "t">>}

GoodOffsets ==
    {Time(<<>>, <<0>>, FALSE), Time(<<"-">>, <<1>>, FALSE), Time(<<"-">>, <<2>>, FALSE),
     Time(<<"+">>, <<5>>, TRUE), Time(<<>>, <<23>>, FALSE), Time(<<"-">>, <<5, 30>>, FALSE),
     Time(<<>>, <<12, 59, 0>>, TRUE)}

BadOffsets ==
    {NoTime, Time(<<>>, <<24>>, FALSE), Time(<<"-">>, <<100>>, FALSE),
     Time(<<>>, <<5, 60>>, FALSE), Time(<<>>, <<5, 30, 1>>, FALSE)}

GoodRuleTimes ==
    {NoTime, Time(<<>>, <<2>>, FALSE), Time(<<>>, <<3>>, FALSE), Time(<<>>, <<0>>, FALSE),
     Time(<<"-">>, <<1>>, FALSE), Time(<<>>, <<24>>, FALSE), Time(<<>>, <<100>>, FALSE),
     Time(<<>>, <<167, 59>>, FALSE), Time(<<"+">>, <<3, 0, 0>>, TRUE)}

BadRuleTimes ==
    {Time(<<>>, <<168>>, FALSE), Time(<<>>, <<1000>>, FALSE), Time(<<>>, <<2, 60>>, FALSE),
     Time(<<>>, <<2, 0, 30>>, FALSE)}

GoodDates ==
    {<<"M", <<3, 5, 0>>>>, <<"M", <<10, 5, 0>>>>, <<"M", <<3, 2, 0>>>>, <<"M", <<1, 1, 6>>>>,
     <<"M", <<12, 4, 3>>>>, <<"J", <<1>>>>, <<"J", <<60>>>>, <<"J", <<100>>>>, <<"J", <<365>>>>,
     <<"N", <<0>>>>, <<"N", <<59>>>>, <<"N", <<365>>>>}

BadDates ==
    {<<"M", <<0, 1, 0>>>>, <<"M", <<13, 1, 0>>>>, <<"M", <<3, 0, 0>>>>, <<"M", <<3, 6, 0>>>>,
     <<"J", <<0>>>>, <<"J", <<366>>>>, <<"J", <<1000>>>>, <<"N", <<366>>>>, <<"N", <<3650>>>>}

\* Every date without a time, and three dates with every time.
Rules ==
    {Rule(d[1], d[2], NoTime) : d \in GoodDates \cup BadDates}
    \cup {Rule(d[1], d[2], tm) :
             d \in {<<"M", <<3, 5, 0>>>>, <<"J", <<1000>>>>, <<"N", <<0>>>>},
             tm \in GoodRuleTimes \cup BadRuleTimes}

Berlin2 == <<Rule("M", <<3, 5, 0>>, Time(<<>>, <<2>>, FALSE)),
             Rule("M", <<10, 5, 0>>, Time(<<>>, <<3>>, FALSE))>>

\* The texts parsed: the standard part varied, the DST part varied, the
\* rule list varied.
ZoneTexts ==
    {ZoneText(std, so, dst, NoTime, rules) :
        std \in GoodNames \cup BadNames, so \in GoodOffsets \cup BadOffsets,
        dst \in {<<>>, <<"C", "E", "S", "T">>}, rules \in {<<>>, Berlin2}}
    \cup {ZoneText(<<"C", "E", "T">>, Time(<<"-">>, <<1>>, FALSE), dst, do, rules) :
        dst \in GoodNames \cup BadNames, do \in GoodOffsets \cup BadOffsets,
        rules \in {<<>>, Berlin2,
                   <<Rule("N", <<0>>, Time(<<>>, <<0>>, FALSE)), Rule("J", <<1>>, NoTime)>>,
                   <<Rule("J", <<0>>, NoTime), Rule("J", <<1>>, NoTime)>>}}
    \cup {ZoneText(<<"C", "E", "T">>, Time(<<"-">>, <<1>>, FALSE), <<"C", "E", "S", "T">>,
                   NoTime, rules) :
        rules \in {<<r>> : r \in Rules} \cup (Rules \X Rules)}

ParseJob(step, z, r) ==
    [fn |-> "Parse", step |-> step, z |-> z, ret |-> r.ret, zone |-> r.zone]

InitParse ==
    /\ TzUnused
    /\ calc \in {ParseJob(0, z, FromReturn(FALSE,
                     ParsedZone(<<>>, <<>>, 0, 0, NoRule, NoRule), 0)) : z \in ZoneTexts}

FromPosixSpec ==
    /\ calc.step = 0
    /\ calc' = ParseJob(1, calc.z, tziFromPosixSpec(calc.z.text))
    /\ UNCHANGED tzVars

NextParse == FromPosixSpec

SpecParse == InitParse /\ [][NextParse]_vars

(***************************************************************************)
(* Properties of the parser, stated on the parts a text was composed from  *)
(***************************************************************************)
\* The grammar's ranges: h below the limit (24 or 168), m below 60, s = 0.
TimeGood(t, limit) ==
    /\ t # NoTime
    /\ t.hms[1] < limit
    /\ Len(t.hms) >= 2 => t.hms[2] < 60
    /\ Len(t.hms) >= 3 => t.hms[3] = 0

\* Minutes, with the sign as written.
TimeValue(t) ==
    (IF t.sg = <<"-">> THEN -1 ELSE 1)
    * (60 * t.hms[1] + (IF Len(t.hms) >= 2 THEN t.hms[2] ELSE 0))

DateGood(r) ==
    IF r.k = "M" THEN r.a[1] \in 1 .. 12 /\ r.a[2] \in 1 .. 5 /\ r.a[3] \in 0 .. 6
    ELSE IF r.k = "J" THEN r.a[1] \in 1 .. 365
    ELSE r.a[1] \in 0 .. 365

RuleGood(r) == DateGood(r) /\ (r.tm = NoTime \/ TimeGood(r.tm, 168))

TwoGoodRules(rules) == Len(rules) = 2 /\ RuleGood(rules[1]) /\ RuleGood(rules[2])

StdGood(z) == z.std \in GoodNames /\ TimeGood(z.so, 24)

DstGood(z) == z.dst \in GoodNames /\ (z.do = NoTime \/ TimeGood(z.do, 24))

\* The text conforms to the grammar.
Conforms(z) ==
    /\ StdGood(z)
    /\ IF z.dst = <<>> THEN z.do = NoTime /\ z.rules = <<>>
                       ELSE DstGood(z) /\ (z.rules = <<>> \/ TwoGoodRules(z.rules))

\* The all-year DST zone: its stdRule is zeroed whatever the text gave.
AllYearDst(zone) == zone.dstRule = PosixRule(1, 1, 0, 0)

StoredRule(zone, i) == IF i = 1 THEN zone.dstRule ELSE zone.stdRule

\* An M rule is stored with Sunday as 7, a transition time in minutes.
StoredAsWritten(rule, r) ==
    /\ (r.k = "M") => /\ rule.rt_month = r.a[1]
                      /\ rule.rt_mdmw = r.a[2]
                      /\ rule.rt_wday = (IF r.a[3] = 0 THEN 7 ELSE r.a[3])
    /\ (r.k # "M") => rule.rt_wday = 0
    /\ (r.tm # NoTime) => rule.rt_ttloc = TimeValue(r.tm)

\* C5: every text that conforms to the grammar is accepted and consumed
\* completely; offsets are stored in minutes with the POSIX sign, an M-rule
\* weekday 0 as 7, ttloc in minutes.
C5_GrammarAccepted ==
    (calc.step = 1 /\ Conforms(calc.z))
        => /\ calc.ret = Len(calc.z.text) + 1
           /\ calc.zone.stdOffs = TimeValue(calc.z.so)
           /\ (calc.z.do # NoTime) => calc.zone.dstOffs = TimeValue(calc.z.do)
           /\ \A i \in 1 .. Len(calc.z.rules) :
                 (i = 1 \/ ~AllYearDst(calc.zone))
                    => StoredAsWritten(StoredRule(calc.zone, i), calc.z.rules[i])

\* 'CET-1<CEST>-2,M3.5.0/2,M10.5.0/3' has been parsed into the record of
\* the tests.
C5_Witness ==
    /\ calc.step = 1
    /\ calc.z.text = <<"C", "E", "T", "-", "1", "<", "C", "E", "S", "T", ">", "-", "2", ",",
                       "M", "3", ".", "5", ".", "0", "/", "2", ",",
                       "M", "1", "0", ".", "5", ".", "0", "/", "3">>
    /\ calc.ret = 33
    /\ calc.zone.stdOffs = -60 /\ calc.zone.dstOffs = -120
    /\ calc.zone.dstRule = PosixRule(3, 5, 7, 120)
    /\ calc.zone.stdRule = PosixRule(10, 5, 7, 180)

\* C6: the parser's defaults: the U.S. rules when a DST name has no rules,
\* dstOffs = stdOffs - 60 when the DST offset is omitted, ttloc = 120 for a
\* rule without '/time', both rules absent without a DST name, and the
\* stdRule zeroed when the dstRule is (month 1, mdmw 1, wday 0, ttloc 0).
C6_ParserDefaults ==
    (calc.step = 1 /\ calc.ret # 0)
        => /\ (calc.z.dst \in GoodNames /\ calc.z.rules = <<>>)
                 => /\ calc.zone.dstRule = PosixRule(3, 2, 7, 120)
                    /\ calc.zone.stdRule = PosixRule(11, 1, 7, 120)
           /\ (calc.z.dst \in GoodNames /\ calc.z.do = NoTime)
                 => calc.zone.dstOffs = calc.zone.stdOffs - 60
           /\ Conforms(calc.z)
                 => \A i \in 1 .. Len(calc.z.rules) :
                       (calc.z.rules[i].tm = NoTime /\ (i = 1 \/ ~AllYearDst(calc.zone)))
                          => StoredRule(calc.zone, i).rt_ttloc = 120
           /\ (calc.z.dst \notin GoodNames)
                 => calc.zone.dstRule.rt_month = 0 /\ calc.zone.stdRule.rt_month = 0
           /\ AllYearDst(calc.zone) => calc.zone.stdRule = NoRule

\* 'CET-1CEST,0/0,J1' has been parsed: DST all year, by default one hour
\* ahead.
C6_Witness ==
    /\ calc.step = 1 /\ calc.ret # 0
    /\ calc.z.do = NoTime
    /\ calc.z.rules = <<Rule("N", <<0>>, Time(<<>>, <<0>>, FALSE)), Rule("J", <<1>>, NoTime)>>
    /\ calc.zone.dstOffs = -120
    /\ calc.zone.stdRule = NoRule

\* Whenever the call succeeds: the pointer lies in [head, tail] and every
\* stored value is in the grammar's range.
StoredInRange(z, ret, zone) ==
    /\ ret \in 1 .. Len(z.text) + 1
    /\ zone.stdOffs > -24 * 60 /\ zone.stdOffs < 24 * 60
    /\ (z.dst \in GoodNames /\ z.do # NoTime /\ TimeGood(z.do, 24))
          => zone.dstOffs > -24 * 60 /\ zone.dstOffs < 24 * 60
    /\ \A rule \in {zone.dstRule, zone.stdRule} :
          /\ rule.rt_ttloc > -168 * 60 /\ rule.rt_ttloc < 168 * 60
          /\ \/ rule.rt_month = 0
             \/ rule.rt_wday = 0 /\ rule.rt_month \in 1 .. 12 /\ rule.rt_mdmw \in 1 .. 366
             \/ rule.rt_wday \in 1 .. 7 /\ rule.rt_month \in 1 .. 12 /\ rule.rt_mdmw \in 1 .. 5

\* C7: NULL is returned when the standard name or the standard offset is
\* missing or malformed, or when a rule list is started but does not consist
\* of two well-formed rules; and whenever the call succeeds the pointer lies
\* in [head, tail] and every stored value is in range.
C7_ParserRejects ==
    (calc.step = 1)
        => /\ ~StdGood(calc.z) => calc.ret = 0
           /\ (StdGood(calc.z) /\ DstGood(calc.z) /\ calc.z.rules # <<>>
                  /\ ~TwoGoodRules(calc.z.rules))
                 => calc.ret = 0
           /\ (calc.ret # 0) => StoredInRange(calc.z, calc.ret, calc.zone)

\* tzi_ParseNum reads at most three significant digits; this is the number
\* it reads from a longer one.
RECURSIVE AsRead(_)
AsRead(n) == IF n < 1000 THEN n ELSE AsRead(n \div 10)

\* The rule the parser reads from the last rule of a text: a day of four or
\* more digits is cut, and the text behind it not read; likewise an hour.
LastRuleAsRead(r) ==
    IF r.k \in {"J", "N"} /\ r.a[1] >= 1000
    THEN Rule(r.k, <<AsRead(r.a[1])>>, NoTime)
    ELSE IF r.tm # NoTime /\ r.tm.hms[1] >= 1000
    THEN Rule(r.k, r.a, Time(r.tm.sg, <<AsRead(r.tm.hms[1])>>, FALSE))
    ELSE r

TwoRulesRead(rules) ==
    Len(rules) = 2 /\ RuleGood(rules[1]) /\ RuleGood(LastRuleAsRead(rules[2]))

\* C7, amended: as C7, but the last rule of the list counts as the parser
\* reads it: a day or a transition hour of four or more digits is read as its
\* first three, and if these are in range the call succeeds with the pointer
\* before the digits not read.  After a well-formed standard and DST part a
\* rule list is rejected exactly if it is not two rules well-formed as read.
C7_ParserRejectsAsRead ==
    (calc.step = 1)
        => /\ ~StdGood(calc.z) => calc.ret = 0
           /\ (StdGood(calc.z) /\ DstGood(calc.z) /\ calc.z.rules # <<>>)
                 => (calc.ret = 0 <=> ~TwoRulesRead(calc.z.rules))
           /\ (calc.ret # 0) => StoredInRange(calc.z, calc.ret, calc.zone)

\* 'CET-1CEST,M3.5.0,J1000' has been parsed as J100 (April 10th), the
\* pointer before the last digit.
C7_Witness ==
    /\ calc.step = 1
    /\ calc.z.rules = <<Rule("M", <<3, 5, 0>>, NoTime), Rule("J", <<1000>>, NoTime)>>
    /\ calc.ret = Len(calc.z.text)
    /\ calc.zone.stdRule = PosixRule(4, 10, 0, 120)

(***************************************************************************)
(* Unsigned 32-bit division and the floor division helpers of common.h     *)
(***************************************************************************)
\* ~p on a 32-bit pattern.
Not32(p) == (-1) - p

\* (uint32_t)p / d and (uint32_t)p % d for 0 < d < 2^30: a pattern below
\* zero stands for 2^31 + (p - INT32_MIN).
UDiv32(p, d) ==
    IF p >= 0 THEN p \div d
    ELSE (INT32_MAX \div d) + ((p - INT32_MIN) \div d)
         + (((INT32_MAX % d) + ((p - INT32_MIN) % d) + 1) \div d)

UMod32(p, d) ==
    IF p >= 0 THEN p % d
    ELSE ((INT32_MAX % d) + ((p - INT32_MIN) % d) + 1) % d

\* m = -(n < 0); q = m ^ ((m ^ n) / d); r = n - q * d  (mod 2^32): with the
\* mask set, n - q * d = n + (k + 1) * d for k = ~n / d, that is
\* d - 1 - (~n % d).
MaskedDiv32(neg, n, d) ==
    IF neg THEN [q |-> Not32(UDiv32(Not32(n), d)), r |-> d - 1 - UMod32(Not32(n), d)]
           ELSE [q |-> UDiv32(n, d), r |-> UMod32(n, d)]

ucal_iu32Div(n, d) == MaskedDiv32(n < 0, n, d)

ucal_iu32SubDiv(a, b, d) == MaskedDiv32(a < b, WrapSub32(a, b), d)

(***************************************************************************)
(* GPS: raw time stamps (10-bit week, time in week)                        *)
(***************************************************************************)
UCAL_rdnGPS == 722820
UCAL_phiGPS == 6019
UCAL_sysPhiGPS == 315964800

\* A base that is taken as given, also before the GPS epoch.
GpsBaseAsGiven(baseRdn) == baseRdn

\* check base day: don't go before epoch
GpsBaseRdn(baseRdn) == IF baseRdn < UCAL_rdnGPS THEN UCAL_rdnGPS ELSE baseRdn

\* Add days to base, checking for potential overflow.
GpsAddDays(dt, base, days) ==
    IF UGt32(days, WrapSub32(INT32_MAX, base))
    THEN [q |-> INT32_MAX, r |-> dt.r, erange |-> TRUE]
    ELSE [q |-> WrapAdd32(base, days), r |-> dt.r, erange |-> FALSE]

GpsReduced(dt, days, base) ==
    GpsAddDays(dt, base, ucal_iu32SubDiv(days + 1, base, 7 * 1024).r)

GpsDays(w, dt, baseRdn) ==
    GpsReduced(dt, ((w % 1024) * 7) + dt.q + UCAL_phiGPS, GpsBaseRdn(baseRdn))

ucal_GpsMapRaw1(w, t, ls, baseRdn) == GpsDays(w, ucal_iu32SubDiv(t, ls, 86400), baseRdn)

\* Bases up to GpsSpread quarter cycles below INT32_MAX.
GpsSpread == 5

GpsWeeks == {0, 1, 99, 100, 924, 1023}

GpsTimes == {0, 17, 18, 86399, 86400, 604799}

GpsLeaps == {0, 18, -18, INT16_MAX, INT16_MIN}

GpsBases ==
    {INT32_MIN, -1, 0, UCAL_rdnGPS - 1, UCAL_rdnGPS, UCAL_rdnGPS + 1,
     UCAL_rdnGPS + 924 * 7, UCAL_rdnGPS + 1024 * 7, 739000}
    \cup {INT32_MAX - 1792 * k : k \in 0 .. GpsSpread}

Raw1Job(step, w, t, ls, baseRdn, r) ==
    [fn |-> "GpsRaw1", step |-> step, w |-> w, t |-> t, ls |-> ls, baseRdn |-> baseRdn,
     q |-> r.q, r |-> r.r, erange |-> r.erange]

InitRaw1 ==
    /\ TzUnused
    /\ calc \in {Raw1Job(0, w, t, ls, b, [q |-> 0, r |-> 0, erange |-> FALSE]) :
                    w \in GpsWeeks, t \in GpsTimes, ls \in GpsLeaps, b \in GpsBases}

GpsMapRaw1 ==
    /\ calc.step = 0
    /\ calc' = Raw1Job(1, calc.w, calc.t, calc.ls, calc.baseRdn,
                       ucal_GpsMapRaw1(calc.w, calc.t, calc.ls, calc.baseRdn))
    /\ UNCHANGED tzVars

NextRaw1 == GpsMapRaw1

SpecRaw1 == InitRaw1 /\ [][NextRaw1]_vars

\* The day the stamp names in the first GPS era, and its place in the 1024
\* weeks that start at the base b.
GpsEraDay(w, t, ls) == UCAL_rdnGPS + 7 * w + ((t - ls) \div 86400)

GpsForward(day, b) == (day - b) % 7168

GpsFloor(baseRdn) == IF baseRdn > UCAL_rdnGPS THEN baseRdn ELSE UCAL_rdnGPS

\* C11: ucal_GpsMapRaw1(w, t, ls, baseRdn) returns r = (t - ls) mod 86400
\* and q = the one RDN in [b, b + 7168), b = max(baseRdn, rdnGPS), that is
\* congruent to rdnGPS + 7 w + floor((t - ls) / 86400) modulo 7168; if that
\* RDN does not fit in 32 bits, q = INT32_MAX and errno = ERANGE.
C11_GpsUnfoldsForward ==
    (calc.step = 1)
        => /\ calc.r = (calc.t - calc.ls) % 86400
           /\ IF GpsForward(GpsEraDay(calc.w, calc.t, calc.ls), GpsFloor(calc.baseRdn))
                    > INT32_MAX - GpsFloor(calc.baseRdn)
              THEN calc.q = INT32_MAX /\ calc.erange
              ELSE /\ ~calc.erange
                   /\ calc.q = GpsFloor(calc.baseRdn)
                        + GpsForward(GpsEraDay(calc.w, calc.t, calc.ls), GpsFloor(calc.baseRdn))

\* gpsMapRaw1(0, 0, 0, rdnGPS + 924 * 7) has returned rdnGPS + 1024 * 7.
C11_Witness ==
    /\ calc.step = 1
    /\ calc.w = 0 /\ calc.t = 0 /\ calc.ls = 0 /\ calc.baseRdn = UCAL_rdnGPS + 924 * 7
    /\ calc.q = UCAL_rdnGPS + 1024 * 7 /\ calc.r = 0

(***************************************************************************)
(* GPS: mapping between time_t and raw stamps (64-bit time_t, 64-bit       *)
(* size_t: the direct division paths)                                      *)
(***************************************************************************)
\* wcycle and fcycle of ucal_GpsMapRaw2: seconds in a week, in 1024 weeks.
GpsWeekCycle == 604800

GpsFullCycle == 604800 * 1024

\* (a * b) mod fcycle for residues a and b, by doubling.
RECURSIVE MulModCycle(_, _)
MulModStep(a, b, half) ==
    IF b % 2 = 1 THEN (((2 * half) % GpsFullCycle) + a) % GpsFullCycle
                 ELSE (2 * half) % GpsFullCycle

MulModCycle(a, b) == IF b = 0 THEN 0 ELSE MulModStep(a, b, MulModCycle(a, b \div 2))

\* The 64-bit value hi * 2^32 + (uint32_t)lo, reduced modulo fcycle with the
\* floor convention; 2^32 mod fcycle = 579076096.
FloorModCycle(tt) ==
    (MulModCycle(579076096 % GpsFullCycle, tt.hi % GpsFullCycle)
        + UMod32(tt.lo, GpsFullCycle)) % GpsFullCycle

\* tt % (1024 * 604800) in C: the sign follows the dividend.
TruncModCycle(tt) ==
    IF tt.hi < 0 /\ FloorModCycle(tt) # 0 THEN FloorModCycle(tt) - GpsFullCycle
                                          ELSE FloorModCycle(tt)

GpsRawTime(qr) == [w |-> qr.q % 1024, t |-> qr.r]

ucal_GpsMapTime(tt, ls) ==
    GpsRawTime(ucal_iu32Div(TruncModCycle(tt) - UCAL_sysPhiGPS + ls, GpsWeekCycle))

\* tbase + secs for 0 <= secs < 2^31: the carry out of the lower word.
Carry64(tbase, lo) == IF UGt32(tbase.lo, lo) THEN 1 ELSE 0

\* return tbase + secs: a signed 64-bit addition.  Where the sum exceeds
\* INT64_MAX the behaviour is undefined: the build may wrap or saturate.
GpsSum(tbase, lo) ==
    IF tbase.hi = INT32_MAX /\ Carry64(tbase, lo) = 1
    THEN {Time64(INT32_MIN, lo), Time64(INT32_MAX, -1)}
    ELSE {Time64(tbase.hi + Carry64(tbase, lo), lo)}

\* if (tbase < UCAL_sysPhiGPS) tbase = UCAL_sysPhiGPS;
GpsTimeBase(base) ==
    IF Lt64(base, Time64(0, UCAL_sysPhiGPS)) THEN Time64(0, UCAL_sysPhiGPS) ELSE base

\* r = (int64_t)secs - tbase, floor division by fcycle, secs = r - q * fcycle.
GpsCycleDiff(secs, tbase) == (secs - FloorModCycle(tbase)) % GpsFullCycle

GpsGlue(secs, tbase) == GpsSum(tbase, WrapAdd32(tbase.lo, GpsCycleDiff(secs, tbase)))

\* The set of values the call may return (base given, not NULL).
ucal_GpsMapRaw2(w, t, ls, base) ==
    GpsGlue(((w % 1024) * GpsWeekCycle) + t - ls + UCAL_sysPhiGPS, GpsTimeBase(base))

\* tt + n for 0 <= n < 2^31 where a time_t holds it.
FitsAdd64(tt, n) == ~(tt.hi = INT32_MAX /\ Carry64(tt, WrapAdd32(tt.lo, n)) = 1)

Add64(tt, n) == Time64(tt.hi + Carry64(tt, WrapAdd32(tt.lo, n)), WrapAdd32(tt.lo, n))

GpsOffsets == {0, 1, GpsWeekCycle, GpsFullCycle - 1, GpsFullCycle}

GpsAnchors ==
    {Time64(INT32_MIN, 0), Time64(-1, -GpsFullCycle), Time64(0, 0), Time64(0, UCAL_sysPhiGPS - 1),
     Time64(0, 1700000000), Time64(1, -GpsWeekCycle),
     Time64(INT32_MAX, (-GpsFullCycle) - 1)}

\* Times at and shortly after the anchors, up to the largest time_t.
GpsInstants == {Add64(a, n) : a \in GpsAnchors, n \in GpsOffsets}

GpsTimeLeaps == {0, 18, INT16_MAX, INT16_MIN}

Raw2Job(step, tt, ls, base, g, res) ==
    [fn |-> "GpsRaw2", step |-> step, tt |-> tt, ls |-> ls, base |-> base, g |-> g, res |-> res]

InitRaw2 ==
    /\ TzUnused
    /\ calc \in {Raw2Job(0, tt, ls, base, [w |-> 0, t |-> 0], Time64(0, 0)) :
                    tt \in GpsInstants, ls \in GpsTimeLeaps, base \in GpsInstants}

GpsMapTime ==
    /\ calc.step = 0
    /\ calc' = [calc EXCEPT !.step = 1, !.g = ucal_GpsMapTime(calc.tt, calc.ls)]
    /\ UNCHANGED tzVars

GpsMapRaw2 ==
    /\ calc.step = 1
    /\ \E res \in ucal_GpsMapRaw2(calc.g.w, calc.g.t, calc.ls, calc.base) :
           calc' = [calc EXCEPT !.step = 2, !.res = res]
    /\ UNCHANGED tzVars

NextRaw2 == GpsMapTime \/ GpsMapRaw2

SpecRaw2 == InitRaw2 /\ [][NextRaw2]_vars

\* b = max(base, sysPhiGPS), and b <= tt < b + 1024 * 604800.
GpsTimeFloor(base) ==
    IF Lt64(Time64(0, UCAL_sysPhiGPS), base) THEN base ELSE Time64(0, UCAL_sysPhiGPS)

InFullCycle(tt, b) ==
    /\ Le64(b, tt)
    /\ FitsAdd64(b, GpsFullCycle) => Lt64(tt, Add64(b, GpsFullCycle))

\* C12: for every base >= sysPhiGPS and every T with
\* base <= T < base + 1024 * 604800, g = ucal_GpsMapTime(T, ls) has g.w in
\* 0..1023 and g.t in 0..604799 and ucal_GpsMapRaw2(g.w, g.t, ls, &base) = T;
\* for any base the result lies in [b, b + 1024 * 604800) with
\* b = max(base, sysPhiGPS).
C12_GpsTimeRoundTrip ==
    /\ (calc.step >= 1) => calc.g.w \in 0 .. 1023 /\ calc.g.t \in 0 .. 604799
    /\ (calc.step = 2 /\ Le64(Time64(0, UCAL_sysPhiGPS), calc.base)
            /\ InFullCycle(calc.tt, calc.base))
          => calc.res = calc.tt
    /\ (calc.step = 2) => InFullCycle(calc.res, GpsTimeFloor(calc.base))

\* The same, for every base at which base + 1024 * 604800 is a time_t.
GpsRoundTripBelowLimit ==
    FitsAdd64(calc.base, GpsFullCycle) => C12_GpsTimeRoundTrip

(***************************************************************************)
(* Inverse Zeller: expanding a two-digit year by the day of the week       *)
(***************************************************************************)
\* (uint16_t)x
U16(x) == x % 65536

\* _ucal_sdtab: month lengths of the year starting with March.
ucal_sdtab(isLY, m) ==
    <<31, 30, 31, 30, 31, 31, 30, 31, 30, 31, 31, IF isLY THEN 29 ELSE 28>>[m + 1]

ucal_wdMON == 1
ucal_wdTUE == 2
ucal_wdWED == 3

RellezInvalid == [res |-> INT16_MIN, errno |-> "EINVAL"]

RellezOverflow == [res |-> INT16_MIN, errno |-> "ERANGE"]

\* if (y > (uint16_t)INT16_MAX - (uint16_t)ybase) goto overflow;
\* return ybase + y;   the operands of '-' are promoted to int.
RellezChecked(y, ybase) ==
    IF y > U16(INT16_MAX) - U16(ybase) THEN RellezOverflow
    ELSE [res |-> ybase + y, errno |-> "none"]

\* y = ucal_iu32SubDiv(y, ybase, period).r, then the range check.
RellezRemap(y, ybase, period) ==
    RellezChecked(U16(ucal_iu32SubDiv(y, ybase, period).r), ybase)

\* Undo the calendar base shift, combine year in century and century.
RellezUnshift(y, m, c, ybase, period) ==
    IF m > 9
    THEN IF U16(y + 1) >= 100
         THEN RellezRemap(U16(U16(y + 1 - 100) + ((c + 1) % 4) * 100), ybase, period)
         ELSE RellezRemap(U16(U16(y + 1) + c * 100), ybase, period)
    ELSE RellezRemap(U16(y + c * 100), ybase, period)

\* d += y + (y >> 2); d += ((m * 83 + 16) >> 5);
RellezZeller(y, m, d) == U16(U16(d + y + (y \div 4)) + ((m * 83 + 16) \div 32))

\* c = (((d + 7 + ucal_wdWED - w) * 0x12493) >> 14) & 7
RellezCenturyGD(y, m, dz, w, ybase) ==
    IF ((((dz + 7 + ucal_wdWED - w) * 74899) \div 16384) % 8) >= 4
    THEN RellezInvalid
    ELSE RellezUnshift(y, m, (((dz + 7 + ucal_wdWED - w) * 74899) \div 16384) % 8,
                       ybase, 400)

\* c = (d + 7 + ucal_wdMON - w) % 7
RellezCenturyJD(y, m, dz, w, ybase) ==
    RellezUnshift(y, m, (dz + 7 + ucal_wdMON - w) % 7, ybase, 700)

\* The day-of-month check, with the rule for Feb-29 of a year ending in 00.
RellezDayGD(y, m, d, w, ybase) ==
    IF y = 99 /\ m = 11 /\ d = 28
    THEN IF w # ucal_wdTUE % 7 THEN RellezInvalid
         ELSE RellezCenturyGD(y, m, RellezZeller(y, m, d), w, ybase)
    ELSE IF d >= ucal_sdtab((y + 1) % 4 = 0, m) THEN RellezInvalid
         ELSE RellezCenturyGD(y, m, RellezZeller(y, m, d), w, ybase)

RellezDayJD(y, m, d, w, ybase) ==
    IF d >= ucal_sdtab((y + 1) % 4 = 0, m) THEN RellezInvalid
    ELSE RellezCenturyJD(y, m, RellezZeller(y, m, d), w, ybase)

\* The year signature after  if (m >= 12) ... else if (--y > 100u) y += 100;
RellezShiftYear(y, m) ==
    IF m + 9 >= 12 THEN y
    ELSE IF U16(y - 1) > 100 THEN U16(U16(y - 1) + 100) ELSE U16(y - 1)

RellezShiftMonth(m) == IF m + 9 >= 12 THEN m + 9 - 12 ELSE m + 9

\* The reduced input is y % 100, d - 1, w % 7.
RellezNonsense(m, d) == (m < 1) \/ (m > 12) \/ (U16(d - 1) > 32)

ucal_RellezGD(y, m, d, w, ybase) ==
    IF RellezNonsense(m, d) THEN RellezInvalid
    ELSE RellezDayGD(RellezShiftYear(y % 100, m), RellezShiftMonth(m), U16(d - 1), w % 7, ybase)

ucal_RellezJD(y, m, d, w, ybase) ==
    IF RellezNonsense(m, d) THEN RellezInvalid
    ELSE RellezDayJD(RellezShiftYear(y % 100, m), RellezShiftMonth(m), U16(d - 1), w % 7, ybase)

(***************************************************************************)
(* Julian calendar                                                         *)
(***************************************************************************)
ucal_LeapDaysInYearsJD(ey) == ucal_i32Asr(ey, 2)

ucal_DateToRdnJD(y, m, d) ==
    LET em == ucal_MonthsToDays(m)
        ey == y - 1 + em.q
    IN  (ey * 365) + ucal_LeapDaysInYearsJD(ey) + em.r + d - 308

(***************************************************************************)
(* Inverse Zeller as a calculator                                          *)
(***************************************************************************)
RellezYears == {0, 1, 4, 82, 99, 2000}

RellezMonths == {0, 1, 2, 3, 10, 12, 13}

RellezDays == {0, 1, 4, 15, 28, 29, 30, 31, 32, 33, 34}

RellezWDays == 0 .. 7

RellezBases == {INT16_MIN, -400, -1, 0, 1500, 1980, 32400, INT16_MAX}

RellezJob(cal, y, m, d, w, ybase, r) ==
    [fn |-> "Rellez", cal |-> cal, y |-> y, m |-> m, d |-> d, w |-> w, ybase |-> ybase,
     res |-> r.res, errno |-> r.errno]

InitRellez ==
    /\ TzUnused
    /\ calc \in {RellezJob("none", y, m, d, w, ybase, [res |-> 0, errno |-> "none"]) :
                    y \in RellezYears, m \in RellezMonths, d \in RellezDays,
                    w \in RellezWDays, ybase \in RellezBases}

RellezGD ==
    /\ calc.cal = "none"
    /\ calc' = RellezJob("GD", calc.y, calc.m, calc.d, calc.w, calc.ybase,
                         ucal_RellezGD(calc.y, calc.m, calc.d, calc.w, calc.ybase))
    /\ UNCHANGED tzVars

RellezJD ==
    /\ calc.cal = "none"
    /\ calc' = RellezJob("JD", calc.y, calc.m, calc.d, calc.w, calc.ybase,
                         ucal_RellezJD(calc.y, calc.m, calc.d, calc.w, calc.ybase))
    /\ UNCHANGED tzVars

NextRellez == RellezGD \/ RellezJD

SpecRellez == InitRellez /\ [][NextRellez]_vars

\* The years of the period that start at ybase and end on the two digits.
SameDigits(y, ybase, period) ==
    {ybase + ((y - ybase) % 100) + 100 * k : k \in 0 .. (period \div 100) - 1}

IsDateGD(Y, m, d) == m \in 1 .. 12 /\ d \in 1 .. DaysInMonthGD(Y, m)

IsDateJD(Y, m, d) ==
    /\ m \in 1 .. 12
    /\ d \in 1 .. (IF m = 2 THEN (IF Y % 4 = 0 THEN 29 ELSE 28)
                   ELSE IF m \in {4, 6, 9, 11} THEN 30 ELSE 31)

\* Day of the week of an RDN, 0 for Sunday.
WeekDay0(rdn) == rdn % 7

\* The years the call may answer with: those of the period on which the
\* date exists and falls on the day of the week.
MatchesGD(job) ==
    {Y \in SameDigits(job.y, job.ybase, 400) :
        IsDateGD(Y, job.m, job.d) /\ WeekDay0(ucal_DateToRdnGD(Y, job.m, job.d)) = job.w % 7}

MatchesJD(job) ==
    {Y \in SameDigits(job.y, job.ybase, 700) :
        IsDateJD(Y, job.m, job.d) /\ WeekDay0(ucal_DateToRdnJD(Y, job.m, job.d)) = job.w % 7}

\* C13: for every base year, negative or positive, and every valid date
\* (Y, m, d) of the Gregorian calendar with ybase <= Y <= ybase + 399 and Y
\* a 16-bit year, ucal_RellezGD(Y mod 100, m, d, w, ybase) returns Y, where w
\* in 1..7 is the day of the week of that date.
C13_RellezGDFindsYear ==
    (calc.cal = "GD" /\ calc.w \in 1 .. 7)
        => \A Y \in MatchesGD(calc) : (Y <= INT16_MAX) => calc.res = Y

\* C14: for every base year and every valid date (Y, m, d) of the Julian
\* calendar with ybase <= Y <= ybase + 699 and Y a 16-bit year, January and
\* February of the years divisible by 100 included,
\* ucal_RellezJD(Y mod 100, m, d, w, ybase) returns Y.
C14_RellezJDFindsYear ==
    (calc.cal = "JD" /\ calc.w \in 1 .. 7)
        => \A Y \in MatchesJD(calc) : (Y <= INT16_MAX) => calc.res = Y

\* C15: ucal_RellezGD returns INT16_MIN with EINVAL when the month or the
\* day is invalid or when no year of the 400-year cycle gives the date that
\* day of the week; INT16_MIN with ERANGE only when the matching year exceeds
\* INT16_MAX; and every other return value Y lies in ybase .. ybase + 399,
\* ends on the two digits, and (Y, m, d) is a Gregorian date on that day of
\* the week.
C15_RellezGDSignals ==
    (calc.cal = "GD")
        => /\ (MatchesGD(calc) = {}) => calc.res = INT16_MIN /\ calc.errno = "EINVAL"
           /\ (calc.errno = "ERANGE")
                 => calc.res = INT16_MIN /\ \E Y \in MatchesGD(calc) : Y > INT16_MAX
           /\ (calc.errno = "none") => calc.res \in MatchesGD(calc)
           /\ (calc.errno = "EINVAL") => calc.res = INT16_MIN

\* The statements of C13, C14 and C15 for a base year that is not negative.
RellezGDFromYearZero == (calc.ybase >= 0) => C13_RellezGDFindsYear /\ C15_RellezGDSignals

\* The statement of C14 for a base year that is not negative and a date that
\* is not in January or February of a year ending in 00.
RellezJDFromYearZero ==
    (calc.ybase >= 0 /\ ~(calc.y % 100 = 0 /\ calc.m \in {1, 2})) => C14_RellezJDFindsYear

(***************************************************************************)
(* 32-bit words and 64-bit sums and products                               *)
(***************************************************************************)
\* The two 16-bit limbs of the uint32_t with bit pattern p.
ULimbs(p) == [h |-> (p \div Limb) % Limb, l |-> p % Limb]

\* The bit pattern of the uint32_t with limbs h and l.
Word(h, l) == (((h + 32768) % Limb) - 32768) * Limb + l

\* a * b for two 16-bit limbs, as the limbs of the 32-bit product.
Mul16(a, b) ==
    LET p1 == a * (b \div 256)
        t  == (p1 % 256) * 256 + a * (b % 256)
    IN  [h |-> (p1 \div 256) + (t \div Limb), l |-> t % Limb]

\* The four limbs of a product summed by columns.
MulColumns(p0, p1, p2, p3) ==
    LET c1 == p0.h + p1.l + p2.l
        c2 == p1.h + p2.h + p3.l + (c1 \div Limb)
        c3 == p3.h + (c2 \div Limb)
    IN  Time64(Word(c3 % Limb, c2 % Limb), Word(c1 % Limb, p0.l))

\* (uint64_t)a * (uint64_t)b for two uint32_t values.
UMul32(a, b) ==
    MulColumns(Mul16(ULimbs(a).l, ULimbs(b).l), Mul16(ULimbs(a).l, ULimbs(b).h),
               Mul16(ULimbs(a).h, ULimbs(b).l), Mul16(ULimbs(a).h, ULimbs(b).h))

\* a * b in uint32_t.
UMulLo32(a, b) == UMul32(a, b).lo

\* x + w modulo 2^64 for a uint32_t w.
UAdd64(x, w) ==
    Time64(WrapAdd32(x.hi, IF UGt32(x.lo, WrapAdd32(x.lo, w)) THEN 1 ELSE 0),
           WrapAdd32(x.lo, w))

\* m ^ p for the mask m = -(u < 0).
Xor32(neg, p) == IF neg THEN Not32(p) ELSE p

\* (uint32_t)p << s and (uint32_t)p >> (32 - s) for s = 0 and 2 <= s < 31.
Shl32(p, s) ==
    IF s = 0 THEN p
    ELSE IF p % (2 ^ (32 - s)) >= 2 ^ (31 - s)
    THEN ((p % (2 ^ (32 - s))) - 2 ^ (32 - s)) * 2 ^ s
    ELSE (p % (2 ^ (32 - s))) * 2 ^ s

TopBits(p, s) == IF s = 0 THEN 0 ELSE (p \div 2 ^ (32 - s)) % (2 ^ s)

\* (uint32_t)p >> s for s = 0 and 2 <= s < 31.
Shr32(p, s) == IF s = 0 THEN p ELSE (p \div 2 ^ s) % (2 ^ (32 - s))

(***************************************************************************)
(* ISO 8601 week calendar                                                  *)
(***************************************************************************)
Y2wUnrotated(cc) ==
    LET c1 == cc % 4
        c2 == (c1 * 2) - (c1 \div 2)
    IN  157 + c2 * 146

ccofs_y2w(cc) ==
    LET c1 == (1 - cc) % 4
        c2 == (c1 * 2) - (c1 \div 2)
    IN  157 + c2 * 146

W2yUnrotated(cc) ==
    LET c1 == cc % 4
        c2 == (c1 * 2) - (c1 \div 2)
    IN  18 + c2 * 22

ccofs_w2y(cc) ==
    LET c1 == (2 + cc) % 4
        c2 == (c1 * 2) - (c1 \div 2)
    IN  18 + c2 * 22

\* x + e in int64_t for a 32-bit e of either sign.
AddInt64(x, e) == UAdd64(Time64(WrapAdd32(x.hi, IF e < 0 THEN -1 ELSE 0), x.lo), e)

\* (int64_t)q * 5218 for a 32-bit q, by the 16-bit limbs of q.
CenturyWeeks(q) ==
    AddInt64(Time64(((q \div Limb) * 5218) \div Limb, Word(((q \div Limb) * 5218) % Limb, 0)),
             (q % Limb) * 5218)

\* The weeks, an int64_t.
weeksInYears(years) ==
    LET s100 == ucal_iu32Div(years, 100)
    IN  AddInt64(CenturyWeeks(s100.q),
                 ((s100.r * 53431 + ccofs_y2w(s100.q)) \div 1024) - ucal_i32Asr(s100.q + 2, 2))

\* Both branches of the range test compare with INT32_MAX; below it the
\* value is converted to int32_t, which keeps the low 32 bits.
WeeksChecked(w) ==
    IF Lt64(Time64(0, INT32_MAX), w) THEN [res |-> INT32_MAX, erange |-> TRUE]
    ELSE [res |-> w.lo, erange |-> FALSE]

ucal_WeeksInYearsWD(years) == WeeksChecked(weeksInYears(years))

ucal_YearStartWD(y) == weeksInYears(y - 1).lo * 7 + 1

\* The 64-bit branch: 4 * weeks + 2 split by 20871 under floor division.
ucal_SplitEraWeeksWD(weeks) ==
    LET n  == weeks * 4 + 2
        Q  == n \div 20871
        s0 == n - Q * 20871
        sw == (s0 \div 4) * 157 + ccofs_w2y(Q)
    IN  [q |-> 100 * Q + (sw \div 8192), r |-> (sw % 8192) \div 157]

ucal_DateToRdnWD(y, w, d) == (ucal_WeeksInYearsWD(y - 1).res + w - 1) * 7 + d

\* The stored date, the value returned and whether errno was set to ERANGE.
ucal_RdnToDateWD(rdn) ==
    LET days == ucal_iu32SubDiv(rdn, 1, 7)
        qr   == ucal_SplitEraWeeksWD(days.q)
    IN  IF qr.q >= INT16_MAX
        THEN [dYear |-> INT16_MAX, dWeek |-> qr.r + 1, dWDay |-> days.r + 1,
              ok |-> FALSE, erange |-> TRUE]
        ELSE IF qr.q < INT16_MIN - 1
        THEN [dYear |-> INT16_MIN, dWeek |-> qr.r + 1, dWDay |-> days.r + 1,
              ok |-> FALSE, erange |-> TRUE]
        ELSE [dYear |-> qr.q + 1, dWeek |-> qr.r + 1, dWDay |-> days.r + 1,
              ok |-> TRUE, erange |-> FALSE]

(***************************************************************************)
(* ISO week calculator                                                     *)
(***************************************************************************)
WeekWindow == 10

WeekSteps == 12000

WeekStrides == 2100

WeekAnchorYears ==
    {INT16_MIN, INT16_MIN + 1, -401, -400, -100, -1, 0, 1, 2, 100, 400, 1582, 1900,
     1970, 1999, 2000, 2001, 2004, 2015, 2016, 2020, 2021, 2026, 2100, 2400,
     INT16_MAX, INT16_MAX + 1}

WeekRdns ==
    {ucal_YearStartGD(y) + k : y \in WeekAnchorYears, k \in -WeekWindow .. WeekWindow}
    \cup {k * 1009 : k \in -WeekSteps .. WeekSteps}
    \cup {k * 1000003 : k \in -WeekStrides .. WeekStrides}
    \cup {INT32_MIN, INT32_MIN + 1, INT32_MAX - 1, INT32_MAX}

WeekYears == {y \in INT16_MIN .. INT16_MAX : TRUE}

NoWeekDate == [dYear |-> 0, dWeek |-> 0, dWDay |-> 0, ok |-> FALSE, erange |-> FALSE]

InitWeek ==
    /\ TzUnused
    /\ calc \in {[fn |-> "YearStartWD", y |-> y, step |-> 0, start |-> 0] : y \in WeekYears}
                \cup {[fn |-> "RdnToDateWD", rdn |-> r, step |-> 0, date |-> NoWeekDate,
                       back |-> 0] : r \in WeekRdns}

YearStartWD ==
    /\ calc.fn = "YearStartWD"
    /\ calc.step = 0
    /\ calc' = [calc EXCEPT !.step = 1, !.start = ucal_YearStartWD(calc.y)]
    /\ UNCHANGED tzVars

RdnToDateWD ==
    /\ calc.fn = "RdnToDateWD"
    /\ calc.step = 0
    /\ calc' = [calc EXCEPT !.step = 1, !.date = ucal_RdnToDateWD(calc.rdn)]
    /\ UNCHANGED tzVars

DateToRdnWD ==
    /\ calc.fn = "RdnToDateWD"
    /\ calc.step = 1
    /\ calc.date.ok
    /\ calc' = [calc EXCEPT !.step = 2,
                            !.back = ucal_DateToRdnWD(calc.date.dYear, calc.date.dWeek,
                                                      calc.date.dWDay)]
    /\ UNCHANGED tzVars

NextWeek == YearStartWD \/ RdnToDateWD \/ DateToRdnWD

SpecWeek == InitWeek /\ [][NextWeek]_vars

\* The Monday nearest to 1 January of the year after ey elapsed years.
wcYearsStart(ey) == ucal_WdNear((ey * 365) + ucal_LeapDaysInYearsGD(ey) + 1, ucal_wdMON).rdn

\* The RDNs whose ISO year is a 16-bit year.
WeekRdnInRange(rdn) == wcYearsStart(INT16_MIN - 1) <= rdn /\ rdn < wcYearsStart(INT16_MAX)

\* The elapsed ISO years of an RDN, searched around the Gregorian year.
WeekYearsElapsed(rdn) ==
    LET y0 == ucal_DaysToYearsGD(rdn).q
    IN  CHOOSE ey \in {y0 - 1, y0, y0 + 1} : wcYearsStart(ey) <= rdn /\ rdn < wcYearsStart(ey + 1)

tref_RdnToDateWD(rdn) ==
    LET ey == WeekYearsElapsed(rdn)
        dd == rdn - wcYearsStart(ey)
    IN  [dYear |-> ey + 1, dWeek |-> (dd \div 7) + 1, dWDay |-> (dd % 7) + 1,
         ok |-> TRUE, erange |-> FALSE]

\* C16: an RDN of a 16-bit ISO year converts to week 1..53 and the Gregorian
\* day of the week (1 = Monday), as the reference between the nearest-Monday
\* year starts says, and ucal_DateToRdnWD of the result is the RDN again; an
\* RDN outside fails with ERANGE and the saturated year.
C16_WeekDateRoundTrip ==
    (calc.fn = "RdnToDateWD" /\ calc.step >= 1) =>
        IF WeekRdnInRange(calc.rdn)
        THEN /\ calc.date.ok
             /\ ~calc.date.erange
             /\ calc.date.dWeek \in 1 .. 53
             /\ calc.date.dWDay = ucal_i32SubMod7(calc.rdn, 1) + 1
             /\ calc.date = tref_RdnToDateWD(calc.rdn)
             /\ (calc.step = 2 => calc.back = calc.rdn)
        ELSE /\ ~calc.date.ok
             /\ calc.date.erange
             /\ calc.date.dYear = (IF calc.rdn < 0 THEN INT16_MIN ELSE INT16_MAX)

C16_Witness ==
    /\ calc.fn = "RdnToDateWD"
    /\ calc.step = 2
    /\ calc.rdn = ucal_YearStartGD(2021) + 2
    /\ calc.date.dYear = 2020
    /\ calc.date.dWeek = 53
    /\ calc.date.dWDay = 7
    /\ calc.back = calc.rdn

\* C17: the ISO year starts on the Monday nearest to 1 January, at most three
\* days away, and the next ISO year starts 364 or 371 days later.
C17_YearStartsNearestMonday ==
    (calc.fn = "YearStartWD" /\ calc.step = 1) =>
        /\ calc.start = ucal_WdNear(ucal_YearStartGD(calc.y), ucal_wdMON).rdn
        /\ ~ucal_WdNear(ucal_YearStartGD(calc.y), ucal_wdMON).erange
        /\ calc.start % 7 = 1
        /\ calc.start - ucal_YearStartGD(calc.y) \in -3 .. 3
        /\ (calc.y < INT16_MAX =>
               ucal_YearStartWD(calc.y + 1) - calc.start \in {364, 371})

C17_Witness ==
    /\ calc.fn = "YearStartWD"
    /\ calc.step = 1
    /\ calc.y = 2021
    /\ calc.start = ucal_YearStartGD(2021) + 3
    /\ ucal_YearStartWD(2020) = calc.start - 371

(***************************************************************************)
(* Julian calendar: day number to date                                     *)
(***************************************************************************)
\* A wrong variant of the split: the dividend of the Gregorian calendar,
\* without the two days between the origins.
DaysToYearsUnshifted(rdn) ==
    LET n  == rdn * 4 - 1
        qy == n \div 1461
    IN  [q |-> qy, r |-> (n - qy * 1461) \div 4, LY |-> qy % 4 = 3]

\* The 64-bit branch: 4 * rdn + 7 split by 1461 under floor division.
ucal_DaysToYearsJD(rdn) ==
    LET n  == rdn * 4 + 7
        qy == n \div 1461
    IN  [q |-> qy, r |-> (n - qy * 1461) \div 4, LY |-> qy % 4 = 3]

ucal_RdnToDateJD(rdn) ==
    LET yd == ucal_DaysToYearsJD(rdn)
        yq == yd.q + 1
        md == ucal_DaysToMonth(yd.r, yd.LY)
    IN  IF yq < INT16_MIN \/ yq > INT16_MAX
        THEN [ok |-> FALSE]
        ELSE [ok     |-> TRUE,
              dWDay  |-> ucal_i32SubMod7(rdn, 1) + 1,
              fLeap  |-> yd.LY,
              dYear  |-> yq,
              dYDay  |-> yd.r + 1,
              dMonth |-> md.q + 1,
              dMDay  |-> md.r + 1]

(***************************************************************************)
(* Julian calendar as a calculator                                         *)
(***************************************************************************)
JdWindow == 400

JdSteps == 12000

JdFar == 500

JdAnchorYears ==
    {INT16_MIN, -401, -400, -100, -4, -1, 0, 1, 4, 100, 325, 1500, 1582, 1583, 1700,
     1900, 1917, 2000, 2024, 2100, INT16_MAX, INT16_MAX + 1}

JdRdns ==
    {ucal_DateToRdnJD(y, 1, 1) + k : y \in JdAnchorYears, k \in -JdWindow .. JdWindow}
    \cup {k * 1009 : k \in -JdSteps .. JdSteps}
    \cup {k * 1000003 : k \in -JdFar .. JdFar}

InitJD ==
    /\ TzUnused
    /\ calc \in {[fn |-> "RdnToDateJD", rdn |-> r, step |-> 0, date |-> NoDate, back |-> 0] :
                    r \in JdRdns}

RdnToDateJD ==
    /\ calc.fn = "RdnToDateJD"
    /\ calc.step = 0
    /\ calc' = [calc EXCEPT !.step = 1, !.date = ucal_RdnToDateJD(calc.rdn)]
    /\ UNCHANGED tzVars

DateToRdnJD ==
    /\ calc.fn = "RdnToDateJD"
    /\ calc.step = 1
    /\ calc.date.ok
    /\ calc' = [calc EXCEPT !.step = 2,
                            !.back = ucal_DateToRdnJD(calc.date.dYear, calc.date.dMonth,
                                                      calc.date.dMDay)]
    /\ UNCHANGED tzVars

NextJD == RdnToDateJD \/ DateToRdnJD

SpecJD == InitJD /\ [][NextJD]_vars

\* The RDN of 1 January of a Julian year: 1 January of year 1 is RDN -1.
JulianNewYear(y) == (y - 1) * 365 + ((y - 1) \div 4) - 1

JdInRange(rdn) == JulianNewYear(INT16_MIN) <= rdn /\ rdn < JulianNewYear(INT16_MAX + 1)

\* C18: an RDN of a 16-bit Julian year converts to a valid Julian date with
\* the leap flag of a year divisible by 4 and the day of the week of the
\* Gregorian conversion, and ucal_DateToRdnJD of the date is the RDN again;
\* 5 October 1582 Julian is 15 October 1582 Gregorian, the day after
\* 4 October 1582 Julian.
C18_JulianRoundTrip ==
    (calc.fn = "RdnToDateJD" /\ calc.step >= 1 /\ JdInRange(calc.rdn)) =>
        /\ calc.date.ok
        /\ IsDateJD(calc.date.dYear, calc.date.dMonth, calc.date.dMDay)
        /\ calc.date.fLeap = (calc.date.dYear % 4 = 0)
        /\ JulianNewYear(calc.date.dYear) + calc.date.dYDay - 1 = calc.rdn
        /\ calc.date.dWDay = ((calc.rdn - 1) % 7) + 1
        /\ (ucal_RdnToDateGD(calc.rdn).ok =>
               calc.date.dWDay = ucal_RdnToDateGD(calc.rdn).dWDay)
        /\ (calc.step = 2 => calc.back = calc.rdn)
        /\ (calc.rdn = ucal_DateToRdnGD(1582, 10, 15) =>
               /\ <<calc.date.dYear, calc.date.dMonth, calc.date.dMDay>> = <<1582, 10, 5>>
               /\ calc.rdn = ucal_DateToRdnJD(1582, 10, 5)
               /\ calc.rdn = ucal_DateToRdnJD(1582, 10, 4) + 1)

C18_Witness ==
    /\ calc.fn = "RdnToDateJD"
    /\ calc.step = 2
    /\ calc.rdn = ucal_DateToRdnGD(1582, 10, 15)
    /\ calc.date.dYear = 1582
    /\ calc.date.dMonth = 10
    /\ calc.date.dMDay = 5
    /\ calc.date.dWDay = 5
    /\ calc.back = calc.rdn

(***************************************************************************)
(* Granlund-Moeller division                                               *)
(***************************************************************************)
ucal_u32DivT(q, r) == [q |-> q, r |-> r]

\* A wrong variant of the correction: the estimate taken as it is.
GMUnadjusted(q1, u0, q0, d) == ucal_u32DivT(q1, u0)

\* The 'unlikely' condition.
GMUnlikely(q1, u0, d) ==
    IF ~UGt32(d, u0) THEN ucal_u32DivT(WrapAdd32(q1, 1), WrapSub32(u0, d))
    ELSE ucal_u32DivT(q1, u0)

\* The 'unpredictable' condition, then the 'unlikely' one.
GMAdjust(q1, u0, q0, d) ==
    IF UGt32(u0, q0) THEN GMUnlikely(WrapSub32(q1, 1), WrapAdd32(u0, d), d)
    ELSE GMUnlikely(q1, u0, d)

GMEstimate(accu, u1, u0, d) ==
    GMAdjust(WrapAdd32(WrapAdd32(accu.hi, u1), 1),
             WrapSub32(u0, UMulLo32(WrapAdd32(WrapAdd32(accu.hi, u1), 1), d)),
             accu.lo, d)

ucal_u32DivGM(u1, u0, d, v) == GMEstimate(UAdd64(UMul32(u1, v), u0), u1, u0, d)

\* The second of the chained divisions and the assembled result.
GMChainLow(neg, first, utl, d, v, s) ==
    LET xdiv == ucal_u32DivGM(first.r, utl, d, v)
    IN  [q |-> Time64(Xor32(neg, first.q), Xor32(neg, xdiv.q)),
         r |-> Shr32(WrapAdd32(Xor32(neg, xdiv.r), IF neg THEN d ELSE 0), s)]

GMChain(neg, uth, utm, utl, d, v, s) ==
    GMChainLow(neg, ucal_u32DivGM(uth, utm, d, v), utl, d, v, s)

ucal_i64u32DivGM(u, d, v, s) ==
    GMChain(u.hi < 0,
            IF s = 0 THEN 0
            ELSE IF u.hi < 0 THEN 2 ^ s - 1 - TopBits(u.hi, s) ELSE TopBits(u.hi, s),
            Xor32(u.hi < 0, Shl32(u.hi, s) + TopBits(u.lo, s)),
            Xor32(u.hi < 0, Shl32(u.lo, s)),
            d, v, s)

(***************************************************************************)
(* Seconds to days                                                         *)
(***************************************************************************)
\* The eight bytes of a 64-bit value, most significant first.
Bytes64(x) ==
    <<ULimbs(x.hi).h \div 256, ULimbs(x.hi).h % 256, ULimbs(x.hi).l \div 256,
      ULimbs(x.hi).l % 256, ULimbs(x.lo).h \div 256, ULimbs(x.lo).h % 256,
      ULimbs(x.lo).l \div 256, ULimbs(x.lo).l % 256>>

FromBytes64(b) ==
    Time64(Word(b[1] * 256 + b[2], b[3] * 256 + b[4]), Word(b[5] * 256 + b[6], b[7] * 256 + b[8]))

\* The machine's '/' on size_t for a divisor below 2^23: schoolbook division
\* on the bytes.
RECURSIVE UDivBytes(_, _, _, _)
UDivBytes(b, d, rem, q) ==
    IF Len(q) = Len(b) THEN q
    ELSE UDivBytes(b, d, (rem * 256 + b[Len(q) + 1]) % d,
                   Append(q, (rem * 256 + b[Len(q) + 1]) \div d))

UDiv64(x, d) == FromBytes64(UDivBytes(Bytes64(x), d, 0, <<>>))

Xor64(neg, x) == Time64(Xor32(neg, x.hi), Xor32(neg, x.lo))

\* The branch taken where time_t fits in a register.
TimeSplit(tt, q) == [q |-> q, r |-> WrapSub32(tt.lo, UMulLo32(q.lo, 86400))]

TimeToDaysWide(tt) == TimeSplit(tt, Xor64(tt.hi < 0, UDiv64(Xor64(tt.hi < 0, tt), 86400)))

\* The branch for a 64-bit time_t on a 32-bit machine.
TimeToDaysNarrow(tt) == ucal_i64u32DivGM(tt, Word(43200, 0), Word(33884, 35340), 15)

ucal_TimeToDays(tt, wide) == IF wide THEN TimeToDaysWide(tt) ELSE TimeToDaysNarrow(tt)

ucal_TimeToRdn(tt, wide) ==
    [q |-> UAdd64(ucal_TimeToDays(tt, wide).q, UCAL_rdnUNIX), r |-> ucal_TimeToDays(tt, wide).r]

(***************************************************************************)
(* Division as a calculator                                                *)
(***************************************************************************)
DivSpread == 6

\* The divisors of the chained division: the one as written, its normalised
\* form, the inverse and the shift.
GMDays == [n |-> 86400, d |-> Word(43200, 0), v |-> Word(33884, 35340), s |-> 15]

GMCycles == [n |-> GpsFullCycle, d |-> Word(37800, 0), v |-> Word(48087, 31027), s |-> 2]

DivWords ==
    {INT32_MIN, INT32_MIN + 1, -86401, -86400, -2, -1, 0, 1, 2, 86399, 86400, 86401,
     GpsFullCycle - 1, GpsFullCycle, 305419896, -1698898192, INT32_MAX - 1, INT32_MAX}

DivHighs ==
    {INT32_MIN, INT32_MIN + 1, -65536, -20117, -2, -1, 0, 1, 2, 20116, 65535,
     INT32_MAX - 1, INT32_MAX}

DivFactors == {1, 2, 49710, 49711, INT32_MAX} \cup {k * 305419897 : k \in 1 .. DivSpread}

\* Multiples of the divisors, the seconds around them and their complements.
DivMultiples ==
    LET up == {UAdd64(UMul32(k, n), j) :
                  k \in DivFactors, n \in {GMDays.n, GMCycles.n}, j \in {0, 1, 86399}}
    IN  up \cup {Xor64(TRUE, x) : x \in up}

DivTimes == {Time64(hi, lo) : hi \in DivHighs, lo \in DivWords} \cup DivMultiples

DivJob(tt, op, par, wide, res) ==
    [fn |-> "Div", tt |-> tt, op |-> op, par |-> par, wide |-> wide, q |-> res.q, r |-> res.r]

InitDiv ==
    /\ TzUnused
    /\ calc \in {DivJob(tt, "none", GMDays, TRUE, [q |-> Time64(0, 0), r |-> 0]) :
                    tt \in DivTimes}

TimeToDays ==
    /\ calc.fn = "Div"
    /\ calc.op = "none"
    /\ \E wide \in BOOLEAN :
          calc' = DivJob(calc.tt, "TimeToDays", GMDays, wide, ucal_TimeToDays(calc.tt, wide))
    /\ UNCHANGED tzVars

TimeToRdn ==
    /\ calc.fn = "Div"
    /\ calc.op = "none"
    /\ \E wide \in BOOLEAN :
          calc' = DivJob(calc.tt, "TimeToRdn", GMDays, wide, ucal_TimeToRdn(calc.tt, wide))
    /\ UNCHANGED tzVars

I64u32DivGM ==
    /\ calc.fn = "Div"
    /\ calc.op = "none"
    /\ \E par \in {GMDays, GMCycles} :
          calc' = DivJob(calc.tt, "DivGM", par, FALSE,
                         ucal_i64u32DivGM(calc.tt, par.d, par.v, par.s))
    /\ UNCHANGED tzVars

NextDiv == TimeToDays \/ TimeToRdn \/ I64u32DivGM

SpecDiv == InitDiv /\ [][NextDiv]_vars

\* q * n modulo 2^64.
TimesWord(q, n) ==
    Time64(WrapAdd32(UMul32(q.lo, n).hi, UMulLo32(q.hi, n)), UMul32(q.lo, n).lo)

\* q - n for 0 <= n < 2^31.
LessWord(q, n) ==
    Time64(WrapSub32(q.hi, IF UGt32(n, q.lo) THEN 1 ELSE 0), WrapSub32(q.lo, n))

\* q = floor(tt / n) and r = tt - n * q: the remainder is in 0 .. n - 1, the
\* quotient has the sign of tt and fewer than 64 - log2(n) bits, and
\* q * n + r is tt.
FloorPair(tt, n, q, r) ==
    /\ 0 <= r
    /\ r < n
    /\ (q.hi < 0) = (tt.hi < 0)
    /\ q.hi >= -(INT32_MAX \div n) - 1
    /\ q.hi <= INT32_MAX \div n
    /\ UAdd64(TimesWord(q, n), r) = tt

\* C19: ucal_TimeToDays and both chained divisions return the floor quotient
\* and the remainder in 0 .. divisor - 1 for every 64-bit time, the chained
\* division by 86400 returns the pair of ucal_TimeToDays, and ucal_TimeToRdn
\* is that split with 719163 added to the quotient.
C19_TimeFloorDivision ==
    (calc.fn = "Div" /\ calc.op # "none") =>
        /\ calc.op = "TimeToDays" => FloorPair(calc.tt, 86400, calc.q, calc.r)
        /\ calc.op = "DivGM" =>
              /\ FloorPair(calc.tt, calc.par.n, calc.q, calc.r)
              /\ calc.par.s = 15 =>
                    [q |-> calc.q, r |-> calc.r] = ucal_TimeToDays(calc.tt, TRUE)
        /\ calc.op = "TimeToRdn" =>
              FloorPair(calc.tt, 86400, LessWord(calc.q, 719163), calc.r)

C19_Witness ==
    /\ calc.fn = "Div"
    /\ calc.op = "DivGM"
    /\ calc.par.s = 15
    /\ calc.tt = Time64(INT32_MIN, 0)
    /\ calc.q = Time64(-24856, -579025221)
    /\ calc.r = 30592

(***************************************************************************)
(* NTP stamps there and back                                               *)
(***************************************************************************)
\* C20: the time unfolded from an NTP stamp is never before the POSIX epoch
\* and folds back to the stamp, for every stamp and every pivot; the stamp
\* of the epoch unfolds around the epoch to the epoch.
C20_NtpNeverBeforeEpoch ==
    (calc.fn = "Ntp" /\ calc.step = 2) =>
        /\ calc.res.hi >= 0
        /\ calc.ntp = calc.secs
        /\ (calc.secs = ucal_TimeToNtp(Time64(0, 0)) /\ calc.pivot = Time64(0, 0)) =>
               calc.res = Time64(0, 0)

\* The same for the pivots at least 2^31 seconds before the largest time_t,
\* where the sum of the base and the cycle difference is a time_t.
NtpNeverBeforeEpochBelowLimit ==
    HasAbove(calc.pivot) => C20_NtpNeverBeforeEpoch

(***************************************************************************)
(* Weekday shifts where the target is a 32-bit day                         *)
(***************************************************************************)
\* The day has the weekday wd: r mod 7 with 1 = Monday and 0 or 7 = Sunday.
OnWeekDay(rdn, wd) == rdn % 7 = wd % 7

\* The call returned the day s days after (before) the base day, with errno
\* untouched, where that day is a 32-bit day number.
ExactUp(s) == calc.rdn <= INT32_MAX - s => (calc.res = calc.rdn + s /\ ~calc.erange)

ExactDown(s) == calc.rdn >= INT32_MIN + s => (calc.res = calc.rdn - s /\ ~calc.erange)

\* The distance from the base day to the first day with the weekday, going
\* up (down), the base day included.
StepsUp(rdn, wd) == CHOOSE s \in 0 .. 6 : OnWeekDay((rdn % 7) + s, wd)

StepsDown(rdn, wd) == CHOOSE s \in 0 .. 6 : OnWeekDay((rdn % 7) + 7 - s, wd)

\* C21: where the target is a 32-bit day, ucal_WdGE returns the smallest day
\* >= rdn, ucal_WdGT the smallest day > rdn, ucal_WdLE the largest day
\* <= rdn and ucal_WdLT the largest day < rdn with the weekday, ucal_WdNear
\* the one at most 3 days away, and errno is left untouched.
C21_WdNearestMatch ==
    /\ (calc.fn = "Wd" /\ calc.op = "WdGE") => ExactUp(StepsUp(calc.rdn, calc.wd))
    /\ (calc.fn = "Wd" /\ calc.op = "WdGT") => ExactUp(StepsUp((calc.rdn % 7) + 1, calc.wd) + 1)
    /\ (calc.fn = "Wd" /\ calc.op = "WdLE") => ExactDown(StepsDown(calc.rdn, calc.wd))
    /\ (calc.fn = "Wd" /\ calc.op = "WdLT") =>
           ExactDown(StepsDown((calc.rdn % 7) + 6, calc.wd) + 1)
    /\ (calc.fn = "Wd" /\ calc.op = "WdNear") =>
           IF StepsUp(calc.rdn, calc.wd) <= 3
           THEN ExactUp(StepsUp(calc.rdn, calc.wd))
           ELSE ExactDown(StepsDown(calc.rdn, calc.wd))

\* The same for every base day but the largest, where the room below the
\* base day is not miscounted.
WdNearestMatchBelowTop ==
    (calc.fn = "Wd" /\ calc.rdn < INT32_MAX) => C21_WdNearestMatch

(***************************************************************************)
(* GPS: full year of a truncated calendar year                             *)
(***************************************************************************)
\* A wrong variant of the fixed mapping: every year in 2000 .. 2099.
GpsCenturyFixed(y) == y + 2000

\* The fixed mapping of the years (mod 100) to 1980 .. 2079.
GpsCentury(y) == IF y >= 80 THEN y + 1900 ELSE y + 2000

GpsYearOf(y, wd, z) == IF wd >= 0 /\ 1980 <= z THEN z ELSE GpsCentury(y)

GpsReducedYear(y, m, d, wd) == GpsYearOf(y, wd, ucal_RellezGD(y, m, d, wd, 1980).res)

ucal_GpsFullYear(y, m, d, wd) ==
    IF y < 1980 THEN GpsReducedYear(ucal_iu32Div(y, 100).r, m, d, wd) ELSE y

FullYears ==
    {INT16_MIN, -101, -1, 0, 4, 25, 79, 80, 99, 1900, 1979, 1980, 1999, 2024, 2380, INT16_MAX}

FullMonths == {-1, 0, 1, 2, 3, 12, 13}

FullDays == {-1, 0, 1, 28, 29, 30, 31, 32}

FullWDays == {-128, -1, 127} \cup (0 .. 8)

InitFullYear ==
    /\ TzUnused
    /\ calc \in {[fn |-> "GpsFullYear", step |-> 0, y |-> y, m |-> m, d |-> d, wd |-> wd,
                  res |-> 0] :
                    y \in FullYears, m \in FullMonths, d \in FullDays, wd \in FullWDays}

GpsFullYear ==
    /\ calc.fn = "GpsFullYear"
    /\ calc.step = 0
    /\ calc' = [calc EXCEPT !.step = 1,
                            !.res = ucal_GpsFullYear(calc.y, calc.m, calc.d, calc.wd)]
    /\ UNCHANGED tzVars

NextFullYear == GpsFullYear

SpecFullYear == InitFullYear /\ [][NextFullYear]_vars

\* The years of 1980 .. 2379 ending on the two digits on which the date
\* exists and falls on the day of the week (0 or 7 for Sunday).
FullYearMatches ==
    MatchesGD([y |-> calc.y % 100, m |-> calc.m, d |-> calc.d, w |-> calc.wd, ybase |-> 1980])

\* The year returned where the days of the week in known say the weekday
\* is to be used.
FullYearAnswer(known) ==
    /\ calc.res # INT16_MIN
    /\ calc.y >= 1980 => calc.res = calc.y
    /\ calc.y < 1980 =>
          /\ calc.res \in 1980 .. 2379
          /\ calc.res % 100 = calc.y % 100
          /\ IF calc.wd \in known /\ FullYearMatches # {}
             THEN calc.res \in FullYearMatches
             ELSE calc.res = (calc.y % 100) + (IF calc.y % 100 >= 80 THEN 1900 ELSE 2000)

\* C22: a year from 1980 on is returned unchanged; a year before is reduced
\* mod 100 and completed to a year of 1980 .. 2379 with those digits: by the
\* inverse Zeller for a day of the week in 1..7 with a consistent year, else
\* by the fixed mapping to 1980 .. 2079; INT16_MIN is never returned.
C22_GpsFullYear ==
    (calc.fn = "GpsFullYear" /\ calc.step = 1) => FullYearAnswer(1 .. 7)

\* C22, amended: the inverse Zeller is used for every day of the week that
\* is not negative, reduced mod 7 (0 and 7 for Sunday, 8 for Monday).
C22_GpsFullYearAnyWeekday ==
    (calc.fn = "GpsFullYear" /\ calc.step = 1) => FullYearAnswer(0 .. 127)

\* 1 January 99 on a Sunday given as 0: the year is 2299, not 1999.
C22_Witness ==
    /\ calc.fn = "GpsFullYear"
    /\ calc.step = 1
    /\ calc.y = 99 /\ calc.m = 1 /\ calc.d = 1 /\ calc.wd = 0
    /\ calc.res = 2299

(***************************************************************************)
(* Weeks in years over the whole 32-bit range                              *)
(***************************************************************************)
YearsWindow == 12

YearsStrides == 40

\* The elapsed years around which the weeks leave the 32-bit range.
YearsEdge == 41157274

YearsInputs ==
    {a + k : a \in {-YearsEdge, -400, 0, 400, YearsEdge}, k \in -YearsWindow .. YearsWindow}
    \cup {INT32_MIN + k : k \in 0 .. YearsWindow}
    \cup {INT32_MAX - k : k \in 0 .. YearsWindow}
    \cup {k * 50000017 : k \in -YearsStrides .. YearsStrides}

InitYears ==
    /\ TzUnused
    /\ calc \in {[fn |-> "WeeksInYearsWD", step |-> 0, years |-> y, res |-> 0,
                  erange |-> FALSE] : y \in YearsInputs}

WeeksInYearsWD ==
    /\ calc.fn = "WeeksInYearsWD"
    /\ calc.step = 0
    /\ calc' = [calc EXCEPT !.step = 1,
                            !.res = ucal_WeeksInYearsWD(calc.years).res,
                            !.erange = ucal_WeeksInYearsWD(calc.years).erange]
    /\ UNCHANGED tzVars

NextYears == WeeksInYearsWD

SpecYears == InitYears /\ [][NextYears]_vars

\* The weeks before the ISO year that follows ey elapsed years, for ey in
\* 0 .. 399: that year starts on the Monday nearest to its 1 January.
CycleWeeks(ey) == (wcYearsStart(ey) - 1) \div 7

\* The exact number of weeks is 20871 for each 400 years and CycleWeeks for
\* the rest; it exceeds INT32_MAX, or is below INT32_MIN.
WeeksAbove(years) == years \div 400 > (INT32_MAX - CycleWeeks(years % 400)) \div 20871

WeeksBelow(years) ==
    (years \div 400) + 1 < -((-(INT32_MIN + (20871 - CycleWeeks(years % 400)))) \div 20871)

ExactWeeks(years) ==
    IF years < 0 THEN 20871 * ((years \div 400) + 1) + (CycleWeeks(years % 400) - 20871)
    ELSE 20871 * (years \div 400) + CycleWeeks(years % 400)

WeeksSaturated(years, r) ==
    IF WeeksAbove(years) THEN r.res = INT32_MAX /\ r.erange
    ELSE IF WeeksBelow(years) THEN r.res = INT32_MIN /\ r.erange
    ELSE r.res = ExactWeeks(years) /\ ~r.erange

\* C23: ucal_WeeksInYearsWD returns the exact number of weeks where it fits
\* in 32 bits, INT32_MAX with ERANGE above, INT32_MIN with ERANGE below, and
\* so never less than for the year before.
C23_WeeksSaturateBothSides ==
    (calc.fn = "WeeksInYearsWD" /\ calc.step = 1) =>
        /\ WeeksSaturated(calc.years, calc)
        /\ calc.years > INT32_MIN =>
               ucal_WeeksInYearsWD(calc.years - 1).res <= calc.res

\* The same where the exact number of weeks is not below INT32_MIN.
WeeksSaturateAbove ==
    (calc.fn = "WeeksInYearsWD" /\ ~WeeksBelow(calc.years)
        /\ (calc.years > INT32_MIN => ~WeeksBelow(calc.years - 1)))
        => C23_WeeksSaturateBothSides

\* ------------------------------------------------------------------------
\* Decimal fraction to Q0.32 binary fraction (tsdecode.c)
\* ------------------------------------------------------------------------
\* A text is a sequence of characters followed by a NUL; a cursor is the
\* number of characters before it.  NoEnd is the NULL 'end' pointer.

NoEnd == -1

CharAt(text, i) == IF i < Len(text) THEN text[i + 1] ELSE "NUL"

\* end = str + strnlen(str, 128) for a NULL end.
TextEnd(text, str, stop) ==
    IF stop = NoEnd THEN (IF Len(text) - str > 128 THEN str + 128 ELSE Len(text))
    ELSE stop

pow10tab(n) == 10 ^ (8 - n)

RECURSIVE _ucal_pnum(_, _, _, _)
_ucal_pnum(text, head, nch, accu) ==
    IF nch = 0 THEN accu
    ELSE _ucal_pnum(text, head + 1, nch - 1, accu * 10 + DigitValue(CharAt(text, head)))

_ucal_pdot(text, str, stop) == str # stop /\ CharAt(text, str) = "."

\* The scan for the end of the digit string and the last non-zero digit.
RECURSIVE FracScan(_, _, _, _)
FracScan(text, str, stop, lnz) ==
    IF str # stop /\ isdigit(CharAt(text, str))
    THEN FracScan(text, str + 1, stop, IF CharAt(text, str) # "0" THEN str + 1 ELSE lnz)
    ELSE [end |-> str, lnz |-> lnz]

\* The divider 3200000000 = 32 * 10^8, its inverse, and half the divider.
FracD == Word(48828, 8192)
FracV == Word(22424, 60963)
FracHalfD == 1600000000

\* A wrong variant of the group value: the digits taken right-aligned.
FracGroupUnscaled(text, head, nch) == _ucal_pnum(text, head, nch, 0)

\* The super-digit of a group of nch digits, left-aligned in 8 digits.
FracGroup(text, head, nch) == _ucal_pnum(text, head, nch, 0) * pow10tab(nch)

\* The rounds of the loop from back to front.  xrem is accu.r at the head of
\* every round: both start as 0 and each round ends with xrem = accu.r.
RECURSIVE FracRounds(_, _, _, _, _)
FracStep(text, str, end, nch, accu, drop) ==
    FracRounds(text, str, end - nch,
               ucal_u32DivGM(Shl32(FracGroup(text, end - nch, nch), 5) + TopBits(accu.q, 5),
                             Shl32(accu.q, 5) + TopBits(accu.r, 5), FracD, FracV),
               drop \/ Shl32(accu.r, 5) # 0)

FracRounds(text, str, end, accu, drop) ==
    IF end = str THEN [accu |-> accu, drop |-> drop]
    ELSE FracStep(text, str, end, ((end - str - 1) % 8) + 1, accu, drop)

\* ++accu.r with the carry into accu.q.
FracUp(q) == ucal_u32DivT(IF WrapAdd32(q, 1) = 0 THEN 1 ELSE 0, WrapAdd32(q, 1))

\* The final rounding.
FracRound(q, xrem, drop) ==
    IF UGt32(xrem, FracHalfD) THEN FracUp(q)
    ELSE IF UGt32(FracHalfD, xrem) THEN ucal_u32DivT(0, q)
    ELSE IF q % 2 = 1 \/ drop THEN FracUp(q)
    ELSE ucal_u32DivT(0, q)

FracClamped(text, str, scan) ==
    IF scan.lnz - str > 24
    THEN FracRounds(text, str, str + 24, ucal_u32DivT(0, 0), TRUE)
    ELSE FracRounds(text, str, scan.lnz, ucal_u32DivT(0, 0), FALSE)

FracResult(scan, done) ==
    [q |-> FracRound(done.accu.q, done.accu.r, done.drop).q,
     r |-> FracRound(done.accu.q, done.accu.r, done.drop).r,
     pos |-> scan.end]

FracScanned(text, str, scan) == FracResult(scan, FracClamped(text, str, scan))

\* The result and the cursor after the call.
ucal_decFrac_raw(text, str, stop) ==
    FracScanned(text, str, FracScan(text, str, TextEnd(text, str, stop), str))

ucal_decFrac(text, str, stop) ==
    IF _ucal_pdot(text, str, stop) THEN ucal_decFrac_raw(text, str + 1, stop)
    ELSE [q |-> 0, r |-> 0, pos |-> str]

\* Calculator.  The digit strings are the decimal neighbours of the rounding
\* ties (2m + 1) / 2^33, where m repeats one byte four times: the first
\* FracLens digits of the tie, as they are and with the last place raised by
\* one, and the tie itself with all its 33 digits.

RECURSIVE HalveDigits(_, _)
HalveDigits(carry, ds) ==
    IF ds = <<>> THEN (IF carry = 1 THEN <<5>> ELSE <<>>)
    ELSE <<(10 * carry + Head(ds)) \div 2>> \o HalveDigits(Head(ds) % 2, Tail(ds))

RECURSIVE TieDigits(_, _)
TieDigits(byte, i) ==
    IF i = 0 THEN <<5>>
    ELSE HalveDigits((byte \div 2 ^ ((i - 1) % 8)) % 2, TieDigits(byte, i - 1))

RECURSIVE RaiseDigits(_)
RaiseDigits(ds) ==
    IF ds = <<>> THEN <<>>
    ELSE IF ds[Len(ds)] < 9 THEN [ds EXCEPT ![Len(ds)] = @ + 1]
    ELSE RaiseDigits(SubSeq(ds, 1, Len(ds) - 1)) \o <<0>>

FracLens == 26
TieBytes == {0, 1, 85, 128, 170, 255}
FracTails == {<<>>, <<"Z">>, <<"0", "0">>, <<".", "5">>}

Codes(ds) == [i \in 1 .. Len(ds) |-> DigitChars[ds[i] + 1]]

FracDigits ==
    UNION {{SubSeq(TieDigits(b, 32), 1, n), RaiseDigits(SubSeq(TieDigits(b, 32), 1, n))} :
           b \in TieBytes, n \in 0 .. FracLens}
    \cup {TieDigits(b, 32) : b \in TieBytes}

FracTexts == {Codes(ds) \o t : ds \in FracDigits, t \in FracTails}

FracJobs ==
    {[fn |-> "decFrac_raw", step |-> 0, text |-> t, stop |-> e, q |-> 0, r |-> 0, pos |-> 0] :
         t \in FracTexts, e \in {NoEnd}}
    \cup {[fn |-> "decFrac_raw", step |-> 0, text |-> t, stop |-> Len(t) - 1,
           q |-> 0, r |-> 0, pos |-> 0] : t \in {x \in FracTexts : Len(x) > 0}}
    \cup {[fn |-> "decFrac", step |-> 0, text |-> d \o t, stop |-> NoEnd,
           q |-> 0, r |-> 0, pos |-> 0] : t \in FracTexts, d \in {<<>>, <<".">>}}

InitFrac ==
    /\ TzUnused
    /\ calc \in FracJobs

DecFracRaw ==
    /\ calc.fn = "decFrac_raw"
    /\ calc.step = 0
    /\ calc' = [calc EXCEPT !.step = 1,
                            !.q = ucal_decFrac_raw(calc.text, 0, calc.stop).q,
                            !.r = ucal_decFrac_raw(calc.text, 0, calc.stop).r,
                            !.pos = ucal_decFrac_raw(calc.text, 0, calc.stop).pos]
    /\ UNCHANGED tzVars

DecFrac ==
    /\ calc.fn = "decFrac"
    /\ calc.step = 0
    /\ calc' = [calc EXCEPT !.step = 1,
                            !.q = ucal_decFrac(calc.text, 0, calc.stop).q,
                            !.r = ucal_decFrac(calc.text, 0, calc.stop).r,
                            !.pos = ucal_decFrac(calc.text, 0, calc.stop).pos]
    /\ UNCHANGED tzVars

NextFrac == DecFracRaw \/ DecFrac

SpecFrac == InitFrac /\ [][NextFrac]_vars

\* The expected result, by doubling the decimal fraction 32 times: each
\* doubling carries out the next binary digit.

RECURSIVE DoubleDigits(_)
DoubleDigits(ds) ==
    IF ds = <<>> THEN [carry |-> 0, ds |-> <<>>]
    ELSE LET rest == DoubleDigits(Tail(ds))
         IN  [carry |-> (2 * Head(ds) + rest.carry) \div 10,
              ds |-> <<(2 * Head(ds) + rest.carry) % 10>> \o rest.ds]

RECURSIVE Doubled(_, _, _)
Doubled(ds, n, bits) ==
    IF n = 0 THEN [bits |-> bits, ds |-> ds]
    ELSE LET d == DoubleDigits(ds)
         IN  Doubled(d.ds, n - 1, 2 * bits + d.carry)

AllZero(ds) == \A i \in 1 .. Len(ds) : ds[i] = 0

\* The fraction left after 32 doublings against one half: 1 above, 0 tie.
AgainstHalf(ds, sticky) ==
    IF ds = <<>> \/ ds[1] < 5 THEN -1
    ELSE IF ds[1] > 5 \/ ~AllZero(Tail(ds)) \/ sticky THEN 1
    ELSE 0

NearestEven(hi, lo, left, sticky) ==
    IF AgainstHalf(left, sticky) = 1 \/ (AgainstHalf(left, sticky) = 0 /\ lo % 2 = 1)
    THEN (IF hi = Limb - 1 /\ lo = Limb - 1 THEN ucal_u32DivT(1, 0)
          ELSE IF lo = Limb - 1 THEN ucal_u32DivT(0, Word(hi + 1, 0))
          ELSE ucal_u32DivT(0, Word(hi, lo + 1)))
    ELSE ucal_u32DivT(0, Word(hi, lo))

FracExpected(ds, sticky) ==
    LET hi == Doubled(ds, 16, 0)
        lo == Doubled(hi.ds, 16, 0)
    IN  NearestEven(hi.bits, lo.bits, lo.ds, sticky)

\* The maximal run of digits at the cursor, up to the end given.
RunLength(text, str, stop) ==
    CHOOSE n \in 0 .. (TextEnd(text, str, stop) - str) :
        /\ \A i \in 0 .. n - 1 : isdigit(CharAt(text, str + i))
        /\ n = TextEnd(text, str, stop) - str \/ ~isdigit(CharAt(text, str + n))

RunDigits(text, str, n) == [i \in 1 .. n |-> DigitValue(CharAt(text, str + i - 1))]

FracOfRun(ds) ==
    IF Len(ds) <= 24 THEN FracExpected(ds, FALSE)
    ELSE FracExpected(SubSeq(ds, 1, 24), ~AllZero(SubSeq(ds, 25, Len(ds))))

FracAnswer(text, str, stop, res) ==
    /\ res.pos = str + RunLength(text, str, stop)
    /\ res.q = FracOfRun(RunDigits(text, str, RunLength(text, str, stop))).q
    /\ res.r = FracOfRun(RunDigits(text, str, RunLength(text, str, stop))).r

\* C24: ucal_decFrac_raw consumes the whole run of digits and returns the
\* fraction times 2^32 rounded to nearest, ties to even, with the digits after
\* the 24th as a sticky bit; ucal_decFrac does the same after a '.', and
\* returns (0, 0) with the cursor unmoved where there is no '.'.
C24_DecFracNearestEven ==
    /\ (calc.fn = "decFrac_raw" /\ calc.step = 1) =>
           /\ calc.q \in {0, 1}
           /\ FracAnswer(calc.text, 0, calc.stop, calc)
    /\ (calc.fn = "decFrac" /\ calc.step = 1) =>
           IF CharAt(calc.text, 0) = "."
           THEN FracAnswer(calc.text, 1, calc.stop, calc)
           ELSE calc.q = 0 /\ calc.r = 0 /\ calc.pos = 0

\* The 24 digits just above the tie 0x55555555.8 round up to 0x55555556, and
\* the cursor stops at the 'Z' behind them.
C24_Witness ==
    /\ calc.fn = "decFrac_raw" /\ calc.step = 1 /\ calc.stop = NoEnd
    /\ calc.text = Codes(RaiseDigits(SubSeq(TieDigits(85, 32), 1, 24))) \o <<"Z">>
    /\ calc.pos = 24 /\ calc.q = 0 /\ calc.r = Word(21845, 21846)

\* ------------------------------------------------------------------------
\* ASN.1 UTCTime and GeneralizedTime (tsdecode.c)
\* ------------------------------------------------------------------------

pow10_9 == 1000000000

\* Decimal digits of the fraction as nanoseconds.
RECURSIVE DecNanoLoop(_, _, _, _, _, _)
DecNanoDigit(text, str, end, nsec, rnd, nch, xch) ==
    IF nch < 10 THEN DecNanoLoop(text, str, end, nsec * 10 + xch, rnd, nch)
    ELSE IF nch = 10 THEN DecNanoLoop(text, str, end, nsec, xch, nch)
    ELSE IF rnd = 5 THEN DecNanoLoop(text, str, end, nsec, rnd + (IF xch # 0 THEN 1 ELSE 0), nch)
    ELSE DecNanoLoop(text, str, end, nsec, rnd, nch)

DecNanoLoop(text, str, end, nsec, rnd, nch) ==
    IF str # end /\ isdigit(CharAt(text, str))
    THEN DecNanoDigit(text, str + 1, end, nsec, rnd, nch + 1, DigitValue(CharAt(text, str)))
    ELSE [nsec |-> nsec, rnd |-> rnd, nch |-> nch, pos |-> str]

DecNanoRounded(scan) ==
    IF 0 < scan.nch /\ 9 > scan.nch THEN scan.nsec * pow10tab(scan.nch - 1)
    ELSE IF (IF scan.rnd = 5 THEN scan.rnd + (scan.nsec % 2) ELSE scan.rnd) > 5
    THEN scan.nsec + 1
    ELSE scan.nsec

DecNanoScanned(scan) == [nsec |-> DecNanoRounded(scan), pos |-> scan.pos]

ucal_decNano_raw(text, str, stop) ==
    DecNanoScanned(DecNanoLoop(text, str, TextEnd(text, str, stop), 0, 0, 0))

ucal_decNano(text, str, stop) ==
    IF _ucal_pdot(text, str, stop) THEN ucal_decNano_raw(text, str + 1, stop)
    ELSE [nsec |-> 0, pos |-> str]

\* The digit groups: adg[i] holds the i-th pair of digits.  Entries not yet
\* written are never read by the callers; they are 0 here.
NoGroups == [i \in 0 .. 6 |-> 0]

RECURSIVE PdLoop(_, _, _, _, _)
PdLoop(text, str, end, cdi, adg) ==
    IF str # end /\ isdigit(CharAt(text, str))
    THEN PdLoop(text, str + 1, end, cdi + 1,
                IF cdi % 2 = 1
                THEN [adg EXCEPT ![cdi \div 2] = @ * 10 + DigitValue(CharAt(text, str))]
                ELSE [adg EXCEPT ![cdi \div 2] = DigitValue(CharAt(text, str))])
    ELSE [cdi |-> cdi, adg |-> adg, pos |-> str]

_ucal_pdgroups(text, str, end, ndig) ==
    PdLoop(text, str, IF end - str > ndig THEN str + ndig ELSE end, 0, NoGroups)

\* The zone offset in minutes.
PtzoOffset(neg, grp) ==
    IF grp.cdi # 4 \/ grp.adg[0] > 23 \/ grp.adg[1] > 59
    THEN [ok |-> FALSE, tzo |-> 0, pos |-> grp.pos]
    ELSE [ok |-> TRUE, pos |-> grp.pos,
          tzo |-> IF neg THEN (-grp.adg[0]) * 60 - grp.adg[1]
                  ELSE grp.adg[0] * 60 + grp.adg[1]]

_ucal_ptzo(text, str, end) ==
    IF str = end THEN [ok |-> FALSE, tzo |-> 0, pos |-> str]
    ELSE IF CharAt(text, str) = "-" THEN PtzoOffset(TRUE, _ucal_pdgroups(text, str + 1, end, 4))
    ELSE IF CharAt(text, str) = "+" THEN PtzoOffset(FALSE, _ucal_pdgroups(text, str + 1, end, 4))
    ELSE IF CharAt(text, str) = "Z" THEN [ok |-> TRUE, tzo |-> 0, pos |-> str + 1]
    ELSE [ok |-> FALSE, tzo |-> 0, pos |-> str]

_ucal_mdtab ==
    << <<31, 28, 31, 30, 31, 30, 31, 31, 30, 31, 30, 31>>,
       <<31, 29, 31, 30, 31, 30, 31, 31, 30, 31, 30, 31>> >>

\* A wrong variant of the validation: the month lengths of a common year.
ValidateCommonYear(year, adg, b) ==
    /\ ~((year < INT16_MIN) \/ (year > INT16_MAX) \/ (adg[b] < 1) \/ (adg[b] > 12))
    /\ ~((adg[b + 1] < 1) \/ (adg[b + 1] > _ucal_mdtab[1][adg[b]]))
    /\ ~((adg[b + 2] > 23) \/ (adg[b + 3] > 59) \/ (adg[b + 4] > 60))

\* The date and time in adg[b .. b + 4] are well-formed.
_ucal_validate(year, adg, b) ==
    /\ ~((year < INT16_MIN) \/ (year > INT16_MAX) \/ (adg[b] < 1) \/ (adg[b] > 12))
    /\ ~((adg[b + 1] < 1)
           \/ (adg[b + 1] > _ucal_mdtab[IF ucal_IsLeapYearGD(year) THEN 2 ELSE 1][adg[b]]))
    /\ ~((adg[b + 2] > 23) \/ (adg[b + 3] > 59) \/ (adg[b + 4] > 60))

\* (time_t)v for an int v.
Int64(v) == Time64(IF v < 0 THEN -1 ELSE 0, v)

RECURSIVE NsecNormal(_, _)
NsecNormal(sec, nsec) ==
    IF nsec >= pow10_9 THEN NsecNormal(UAdd64(sec, 1), nsec - pow10_9)
    ELSE [sec |-> sec, nsec |-> nsec]

\* Seconds of the day plus the days since the UNIX epoch times 86400.
MkSeconds(year, adg, b) ==
    UAdd64(TimesWord(Int64(ucal_DateToRdnGD(year, adg[b], adg[b + 1]) - UCAL_rdnUNIX), 86400),
           ((adg[b + 2] * 60) + adg[b + 3]) * 60 + adg[b + 4])

AsnFailed(pos) ==
    [ok |-> FALSE, local |-> FALSE, sec |-> Time64(0, 0), nsec |-> 0, pos |-> pos]

MkZoned(norm, tzo, local, pos) ==
    [ok |-> TRUE, local |-> local, sec |-> AddInt64(norm.sec, -(tzo * 60)),
     nsec |-> norm.nsec, pos |-> pos]

_ucal_mktime(year, adg, b, nsec, tzo, pos) ==
    IF _ucal_validate(year, adg, b)
    THEN MkZoned(NsecNormal(MkSeconds(year, adg, b), nsec), tzo, FALSE, pos)
    ELSE AsnFailed(pos)

\* The local time handed to mktime() of the platform: the result carries the
\* seconds as if the local zone were UTC, and the caller of this operator
\* applies what mktime() answers.
_ucal_mklocal(year, adg, b, nsec, pos) ==
    IF _ucal_validate(year, adg, b)
    THEN MkZoned(NsecNormal(MkSeconds(year, adg, b), nsec), 0, TRUE, pos)
    ELSE AsnFailed(pos)

AsnZone(year, adg, b, nsec, zone) ==
    IF zone.ok THEN _ucal_mktime(year, adg, b, nsec, zone.tzo, zone.pos)
    ELSE AsnFailed(zone.pos)

\* After the digit groups: the fraction, then the zone or the end.
AsnTail(text, end, year, adg, b, frc) ==
    IF frc.pos = end THEN _ucal_mklocal(year, adg, b, frc.nsec, frc.pos)
    ELSE AsnZone(year, adg, b, frc.nsec, _ucal_ptzo(text, frc.pos, end))

UtcGroups(text, end, ybase, grp) ==
    IF grp.cdi = 10
    THEN AsnTail(text, end, ybase + ucal_iu32SubDiv(grp.adg[0], ybase, 100).r,
                 [grp.adg EXCEPT ![5] = 0], 1, ucal_decNano(text, grp.pos, end))
    ELSE IF grp.cdi = 12
    THEN AsnTail(text, end, ybase + ucal_iu32SubDiv(grp.adg[0], ybase, 100).r,
                 grp.adg, 1, ucal_decNano(text, grp.pos, end))
    ELSE AsnFailed(grp.pos)

ucal_decASN1UtcTime23(text, ybase) ==
    UtcGroups(text, TextEnd(text, 0, NoEnd), ybase,
              _ucal_pdgroups(text, 0, TextEnd(text, 0, NoEnd), 12))

GenGroups(text, end, grp) ==
    IF grp.cdi = 10
    THEN AsnTail(text, end, grp.adg[0] * 100 + grp.adg[1],
                 [grp.adg EXCEPT ![5] = 0, ![6] = 0], 2, ucal_decNano(text, grp.pos, end))
    ELSE IF grp.cdi = 12
    THEN AsnTail(text, end, grp.adg[0] * 100 + grp.adg[1],
                 [grp.adg EXCEPT ![6] = 0], 2, ucal_decNano(text, grp.pos, end))
    ELSE IF grp.cdi = 14
    THEN AsnTail(text, end, grp.adg[0] * 100 + grp.adg[1],
                 grp.adg, 2, ucal_decNano(text, grp.pos, end))
    ELSE AsnFailed(grp.pos)

ucal_decASN1GenTime24(text) ==
    GenGroups(text, TextEnd(text, 0, NoEnd),
              _ucal_pdgroups(text, 0, TextEnd(text, 0, NoEnd), 14))

\* Calculator.  A time stamp is given by its leading digits, its fraction
\* and its zone; the text decoded is written from them.

TwoDigits(n) == <<n \div 10, n % 10>>

\* The digits of date and time; a minute or second of -1 is left out.
StampDigits(yy, mo, d, h, mi, sec) ==
    yy \o TwoDigits(mo) \o TwoDigits(d) \o TwoDigits(h)
       \o (IF mi < 0 THEN <<>> ELSE TwoDigits(mi))
       \o (IF mi < 0 \/ sec < 0 THEN <<>> ELSE TwoDigits(sec))

Century(y) == TwoDigits(y \div 100) \o TwoDigits(y % 100)

AsnYears == {0, 1900, 1970, 2000, 2023, 9999}
AsnMonths == {0, 1, 2, 4, 12, 13}
AsnDays == {0, 1, 28, 29, 30, 31, 32}
AsnHours == {0, 23, 24}
AsnMinutes == {-1, 0, 59, 60}
AsnSeconds == {-1, 0, 60, 61}
AsnBases == {1950, 2000, 32700}
AsnDigitCounts == 16

AsnFractions ==
    {[dot |-> FALSE, ds |-> <<>>], [dot |-> TRUE, ds |-> <<>>], [dot |-> TRUE, ds |-> <<0>>],
     [dot |-> TRUE, ds |-> <<0, 1, 0>>],
     [dot |-> TRUE, ds |-> <<1, 2, 3, 4, 5, 6, 7, 8, 9>>],
     [dot |-> TRUE, ds |-> <<9, 9, 9, 9, 9, 9, 9, 9, 9, 5>>],
     [dot |-> TRUE, ds |-> <<9, 9, 9, 9, 9, 9, 9, 9, 8, 5>>],
     [dot |-> TRUE, ds |-> <<9, 9, 9, 9, 9, 9, 9, 9, 9, 4, 9, 9, 9>>]}

NoFraction == [dot |-> FALSE, ds |-> <<>>]

\* kind "Z", "offset" (sign and hhmm), "short" (sign and hh), "junk" or "none".
AsnZones ==
    {[kind |-> k, neg |-> FALSE, hh |-> 0, mm |-> 0] : k \in {"Z", "junk", "none"}}
    \cup {[kind |-> "offset", neg |-> o[1], hh |-> o[2], mm |-> o[3]] :
              o \in {<<TRUE, 1, 0>>, <<TRUE, 23, 59>>, <<FALSE, 23, 59>>,
                     <<FALSE, 24, 0>>, <<FALSE, 1, 60>>}}
    \cup {[kind |-> "short", neg |-> TRUE, hh |-> 1, mm |-> 0]}

ZoneWest == [kind |-> "offset", neg |-> TRUE, hh |-> 1, mm |-> 0]
ZoneZulu == [kind |-> "Z", neg |-> FALSE, hh |-> 0, mm |-> 0]

ZoneChars(z) ==
    IF z.kind = "Z" THEN <<"Z">>
    ELSE IF z.kind = "junk" THEN <<"X">>
    ELSE IF z.kind = "none" THEN <<>>
    ELSE <<IF z.neg THEN "-" ELSE "+">> \o Codes(TwoDigits(z.hh))
             \o (IF z.kind = "short" THEN <<>> ELSE Codes(TwoDigits(z.mm)))

StampText(ds, frac, zone) ==
    Codes(ds) \o (IF frac.dot THEN <<".">> \o Codes(frac.ds) ELSE <<>>) \o ZoneChars(zone)

\* Every date with two times of day; a few dates with every time of day,
\* fraction and zone; and every number of leading digits.
GenStamps ==
    {[ds |-> StampDigits(Century(y), mo, d, t[1], t[2], t[3]), frac |-> NoFraction, zone |-> z] :
         y \in AsnYears, mo \in AsnMonths, d \in AsnDays,
         t \in {<<0, -1, -1>>, <<23, 59, 60>>}, z \in {ZoneZulu, ZoneWest}}
    \cup {[ds |-> StampDigits(ymd[1], ymd[2], ymd[3], h, mi, sec), frac |-> f, zone |-> z] :
              ymd \in {<<Century(1970), 1, 1>>, <<Century(9999), 12, 31>>},
              h \in AsnHours, mi \in AsnMinutes, sec \in AsnSeconds,
              f \in AsnFractions, z \in AsnZones}
    \cup {[ds |-> SubSeq(StampDigits(Century(1970), 1, 1, 0, 0, 0) \o <<0, 0, 0, 0, 0, 0>>, 1, n),
           frac |-> NoFraction, zone |-> ZoneZulu] : n \in 0 .. AsnDigitCounts}

UtcStamps ==
    {[ds |-> StampDigits(TwoDigits(y % 100), mo, d, t[1], t[2], t[3]),
      frac |-> NoFraction, zone |-> z] :
         y \in AsnYears, mo \in AsnMonths, d \in AsnDays,
         t \in {<<0, -1, -1>>, <<23, 59, 60>>}, z \in {ZoneZulu, ZoneWest}}
    \cup {[ds |-> StampDigits(ymd[1], ymd[2], ymd[3], h, mi, sec), frac |-> f, zone |-> z] :
              ymd \in {<<TwoDigits(0), 2, 29>>},
              h \in AsnHours, mi \in AsnMinutes, sec \in AsnSeconds,
              f \in AsnFractions, z \in AsnZones}
    \cup {[ds |-> SubSeq(StampDigits(TwoDigits(70), 1, 1, 0, 0, 0) \o <<0, 0, 0, 0, 0, 0>>, 1, n),
           frac |-> NoFraction, zone |-> ZoneZulu] : n \in 0 .. AsnDigitCounts}

\* What mktime() may take the local zone to be, in seconds east of UTC.
LocalZones == {-3600, 0, 3600}

AsnJob(fn, src, ybase) ==
    [fn |-> fn, step |-> 0, src |-> src, text |-> StampText(src.ds, src.frac, src.zone),
     ybase |-> ybase, ok |-> FALSE, local |-> FALSE, sec |-> Time64(0, 0), nsec |-> 0, pos |-> 0]

InitAsn ==
    /\ TzUnused
    /\ calc \in {AsnJob("GenTime24", st, 0) : st \in GenStamps}
                \cup {AsnJob("UtcTime23", st, yb) : st \in UtcStamps, yb \in AsnBases}

\* The call returns with the decoded time stamp; for a local time the
\* platform's mktime() decides.
AsnReturns(res) ==
    IF res.ok /\ res.local
    THEN \/ \E z \in LocalZones :
                calc' = [calc EXCEPT !.step = 1, !.ok = TRUE, !.local = TRUE,
                                     !.sec = AddInt64(res.sec, -z), !.nsec = res.nsec,
                                     !.pos = res.pos]
         \/ calc' = [calc EXCEPT !.step = 1, !.local = TRUE, !.pos = res.pos]
    ELSE IF res.ok
    THEN calc' = [calc EXCEPT !.step = 1, !.ok = TRUE, !.sec = res.sec, !.nsec = res.nsec,
                              !.pos = res.pos]
    ELSE calc' = [calc EXCEPT !.step = 1, !.pos = res.pos]

DecASN1GenTime24 ==
    /\ calc.fn = "GenTime24"
    /\ calc.step = 0
    /\ AsnReturns(ucal_decASN1GenTime24(calc.text))
    /\ UNCHANGED tzVars

DecASN1UtcTime23 ==
    /\ calc.fn = "UtcTime23"
    /\ calc.step = 0
    /\ AsnReturns(ucal_decASN1UtcTime23(calc.text, calc.ybase))
    /\ UNCHANGED tzVars

NextAsn == DecASN1GenTime24 \/ DecASN1UtcTime23

SpecAsn == InitAsn /\ [][NextAsn]_vars

\* The fields of a time stamp as its grammar names them.
PairAt(ds, i) == IF 2 * i <= Len(ds) THEN ds[2 * i - 1] * 10 + ds[2 * i] ELSE 0

\* The fields after the year: month, day, hour, minute and second.
StampField(job, i) ==
    PairAt(job.src.ds, i + (IF job.fn = "GenTime24" THEN 2 ELSE 1))

StampYear(job) ==
    IF job.fn = "GenTime24" THEN PairAt(job.src.ds, 1) * 100 + PairAt(job.src.ds, 2)
    ELSE job.ybase + ((PairAt(job.src.ds, 1) - job.ybase) % 100)

DigitCountGood(job) ==
    IF job.fn = "GenTime24" THEN Len(job.src.ds) \in {10, 12, 14}
    ELSE Len(job.src.ds) \in {10, 12}

ZoneGood(z) == z.kind = "Z" \/ (z.kind = "offset" /\ z.hh <= 23 /\ z.mm <= 59)

ZoneMinutes(z) ==
    IF z.kind = "Z" THEN 0 ELSE (IF z.neg THEN -1 ELSE 1) * (60 * z.hh + z.mm)

StampDateGood(job) ==
    /\ StampField(job, 1) \in 1 .. 12
    /\ StampField(job, 2) \in 1 .. DaysInMonthGD(StampYear(job), StampField(job, 1))

StampTimeGood(job) ==
    StampField(job, 3) <= 23 /\ StampField(job, 4) <= 59 /\ StampField(job, 5) <= 60

\* The grounds on which the call is to return false.
StampRejected(job) ==
    \/ ~DigitCountGood(job)
    \/ StampField(job, 1) \notin 1 .. 12
    \/ StampField(job, 2) > DaysInMonthGD(StampYear(job), ((StampField(job, 1) - 1) % 12) + 1)
    \/ ~StampTimeGood(job)
    \/ job.src.zone.kind \in {"junk", "short"}
    \/ (job.src.zone.kind = "offset" /\ ~ZoneGood(job.src.zone))

StampAccepted(job) ==
    /\ DigitCountGood(job) /\ StampDateGood(job) /\ StampTimeGood(job)
    /\ ZoneGood(job.src.zone)

\* The fraction in nanoseconds, rounded to nearest, ties to even.
RECURSIVE DigitsValue(_, _)
DigitsValue(ds, n) ==
    IF n = 0 THEN 0
    ELSE DigitsValue(ds, n - 1) * 10 + (IF n <= Len(ds) THEN ds[n] ELSE 0)

FractionNanos(ds) ==
    DigitsValue(ds, 9)
    + (IF Len(ds) > 9
          /\ (AgainstHalf(SubSeq(ds, 10, Len(ds)), FALSE) = 1
                \/ (AgainstHalf(SubSeq(ds, 10, Len(ds)), FALSE) = 0 /\ DigitsValue(ds, 9) % 2 = 1))
       THEN 1 ELSE 0)

\* Seconds since the start of the day of the date, zone applied.
StampSeconds(job, carry) ==
    3600 * StampField(job, 3) + 60 * StampField(job, 4) + StampField(job, 5)
        - 60 * ZoneMinutes(job.src.zone) + carry

StampDays(job) ==
    ucal_DateToRdnGD(StampYear(job), StampField(job, 1), StampField(job, 2)) - UCAL_rdnUNIX

\* tv_sec is the seconds of the time stamp plus carry.
SecondsAre(job, carry) ==
    FloorPair(job.sec, 86400, Int64(StampDays(job) + (StampSeconds(job, carry) \div 86400)),
              StampSeconds(job, carry) % 86400)

AsnCalled == calc.fn \in {"GenTime24", "UtcTime23"} /\ calc.step = 1

EvalYears == {1900, 1970, 2000, 2023, 2024, 2100}

EvalRules ==
    {Rule("M", <<mon, wk, dow>>, NoTime) : mon \in 1 .. 12, wk \in 1 .. 5, dow \in 0 .. 6}
    \cup {Rule("J", <<n>>, NoTime) : n \in 1 .. 365}
    \cup {Rule("N", <<n>>, NoTime) : n \in 0 .. 365}

InitEval ==
    /\ TzUnused
    /\ calc \in {[fn |-> "EvalRule", step |-> 0, rule |-> r, year |-> y, ok |-> FALSE,
                  rdn |-> 0] : r \in EvalRules, y \in EvalYears}

EvalParsed(parsed, year) ==
    [calc EXCEPT !.step = 1, !.ok = parsed.ok,
                 !.rdn = IF parsed.ok THEN tzi_EvalRule(parsed.val, year) ELSE 0]

EvalRule ==
    /\ calc.fn = "EvalRule"
    /\ calc.step = 0
    /\ calc' = EvalParsed(tzi_ParseRule(RuleText(calc.rule), 1, NoRule), calc.year)
    /\ UNCHANGED tzVars

NextEval == EvalRule

SpecEval == InitEval /\ [][NextEval]_vars

\* The day is the weekday dow (0 = Sunday) and a day lo .. hi of the month.
DayOfMonthIn(rdn, year, mon, dow, lo, hi) ==
    /\ rdn % 7 = dow
    /\ \E d \in lo .. hi : rdn = ucal_DateToRdnGD(year, mon, d)

\* The n-th day of the year, 29 February not counted.
JulianDay(year, n) ==
    ucal_YearStartGD(year) + (n - 1) + (IF ucal_IsLeapYearGD(year) /\ n >= 60 THEN 1 ELSE 0)

RuleDay(r, year, rdn) ==
    IF r.k = "M" /\ r.a[2] <= 4
    THEN DayOfMonthIn(rdn, year, r.a[1], r.a[3], 7 * r.a[2] - 6, 7 * r.a[2])
    ELSE IF r.k = "M"
    THEN DayOfMonthIn(rdn, year, r.a[1], r.a[3], DaysInMonthGD(year, r.a[1]) - 6,
                      DaysInMonthGD(year, r.a[1]))
    ELSE IF r.k = "J"
    THEN rdn = JulianDay(year, r.a[1])
         /\ (r.a[1] = 60 => rdn = ucal_DateToRdnGD(year, 3, 1))
    ELSE rdn = ucal_YearStartGD(year) + r.a[1]

\* C26: for M mon.wk.dow tzi_EvalRule returns the wk-th dow of the month
\* (wk = 5: the last one), for J n the n-th day of the year with 29 February
\* left out, for n the day n after the start of the year.
C26_RuleDayOfYear ==
    (calc.fn = "EvalRule" /\ calc.step = 1) =>
        calc.ok /\ RuleDay(calc.rule, calc.year, calc.rdn)

\* M2.5.0 in 2024: the last Sunday of February of a leap year is the 25th.
C26_Witness ==
    /\ calc.fn = "EvalRule" /\ calc.step = 1
    /\ calc.rule = Rule("M", <<2, 5, 0>>, NoTime) /\ calc.year = 2024
    /\ calc.rdn = ucal_DateToRdnGD(2024, 2, 25)

\* ------------------------------------------------------------------------
\* The cached year frame (tzposix.c)
\* ------------------------------------------------------------------------
\* One conversion context queried around the bounds of its frames: around
\* the turns of the years 1967 and 1968, where the n-th mean year of
\* tzi_CtxUpdate ends, and around the transitions.  calc is the record of
\* the last call: the context before it, the year of the frame in the
\* context, whether the frame was computed by the call, whether the caller's
\* buffers and the context are as before, and errno.

EINVAL == 22

MeanYear == 31556952

CacheYears == {1967, 1968}

CacheDeltas == SlackDeltas \cup {-43200, 43200}

CacheZoneNames == ZoneNames \cup {"NewYear"}

CacheFrames(tzi) == {tzi_YearFrame(tzi, y) : y \in CacheYears}

CacheTimes(pTZI) ==
    IF HasBothRules(Zone(pTZI))
    THEN UNION {{f.trLoBound + d : d \in CacheDeltas} \cup {f.trHiBound + d : d \in CacheDeltas}
                \cup {f.ttDST - 1, f.ttDST, f.ttSTD - 1, f.ttSTD} : f \in CacheFrames(Zone(pTZI))}
         \cup {(y - EPOCH_YEAR) * MeanYear + d : y \in CacheYears, d \in {-1, 0}}
    ELSE {0, 86400}

CacheFrame(pTZI) == tzi_YearFrame(Zone(pTZI), 1968)

CacheWallTimes(pTZI) ==
    IF HasBothRules(Zone(pTZI))
    THEN {t - o * 60 : t \in {CacheFrame(pTZI).ttDST, CacheFrame(pTZI).ttSTD,
                              CacheFrame(pTZI).trLoBound, CacheFrame(pTZI).trHiBound},
                       o \in {Zone(pTZI).stdOffs, Zone(pTZI).dstOffs}}
    ELSE {0, 1800}

CacheRangeTimes(pTZI) ==
    IF HasBothRules(Zone(pTZI))
    THEN {CacheFrame(pTZI).ttDST + 1, CacheFrame(pTZI).trHiBound}
    ELSE {0}

CachePeriods == {0, 86400}

\* A context whose frame fields hold what an earlier owner left in them.
UsedCtx(pTZI) ==
    [trLoBound |-> -172800, trHiBound |-> 172800, ttDST |-> 11, ttSTD |-> 13, pTZI |-> pTZI]

NoRecord ==
    [fn |-> "Cache", was |-> ZeroCtx("FixedStd"), year |-> 0, computed |-> FALSE,
     kept |-> TRUE, errno |-> 0, null |-> "none"]

InitCache ==
    /\ ctx \in {ZeroCtx(p) : p \in CacheZoneNames}
               \cup {UsedCtx(p) : p \in {"FixedStd", "FixedDst"}}
    /\ call = NoCall
    /\ retv = FALSE
    /\ into = NoInfo
    /\ tlohi = NoRange
    /\ calc = [NoRecord EXCEPT !.was = ctx]

\* The instant tzi_CtxUpdate is called with, and whether it computes a frame.
UpdateInstant(c, tzi) ==
    IF c.fn = "Local2Utc" THEN c.tsfrom + tzi.stdOffs * 60 ELSE c.tsfrom

OutsideWindow(cx, t) == (t < cx.trLoBound - 86400) \/ (t >= cx.trHiBound + 86400)

Computes(c, cx) ==
    /\ HasBothRules(Zone(cx.pTZI))
    /\ ~(c.fn = "AlignedLocalRange" /\ ~((c.period > 0) /\ (c.period <= 7 * 86400)))
    /\ OutsideWindow(cx, UpdateInstant(c, Zone(cx.pTZI)))

\* The call c returns r: its effect on the program state.
CacheDone(c, r) ==
    /\ call' = c
    /\ retv' = r.retv
    /\ into' = r.into
    /\ ctx' = r.ctx
    /\ tlohi' = IF c.fn = "AlignedLocalRange" THEN r.tlohi ELSE tlohi
    /\ calc' = [calc EXCEPT !.was = ctx,
                            !.year = IF Computes(c, ctx)
                                     THEN tzi_FrameYear(UpdateInstant(c, Zone(ctx.pTZI)))
                                     ELSE @,
                            !.computed = Computes(c, ctx),
                            !.kept = (r.into = into) /\ (r.ctx = ctx)
                                     /\ (c.fn = "AlignedLocalRange" => r.tlohi = tlohi),
                            !.null = "none"]

CacheUtc2Local ==
    \E t \in CacheTimes(ctx.pTZI) :
        CacheDone(Call("Utc2Local", t, "None", 0, 0), tziGetInfoUtc2Local(ctx, t))

CacheLocal2Utc ==
    \E t \in CacheWallTimes(ctx.pTZI), h \in Hints :
        CacheDone(Call("Local2Utc", t, h, 0, 0), tziGetInfoLocal2Utc(ctx, t, h))

CacheAlignedLocalRange ==
    \E t \in CacheRangeTimes(ctx.pTZI), period \in CachePeriods, phi \in {0} :
        CacheDone(Call("AlignedLocalRange", t, "None", period, phi),
                  tziAlignedLocalRange(tlohi, into, ctx, t, period, phi))

\* A conversion called with a NULL 'into' or a NULL 'ctx': errno = EINVAL
\* and return false.  tziAlignedLocalRange tests its period first.
NullCall ==
    \E fn \in {"Utc2Local", "Local2Utc", "AlignedLocalRange"}, null \in {"into", "ctx"},
       period \in {0, 3600} :
        /\ fn # "AlignedLocalRange" => period = 0
        /\ call' = Call(fn, 0, "None", period, 0)
        /\ retv' = FALSE
        /\ calc' = [calc EXCEPT !.was = ctx, !.computed = FALSE, !.kept = TRUE, !.null = null,
                                !.errno = IF fn = "AlignedLocalRange" /\ period = 0
                                          THEN @ ELSE EINVAL]
        /\ UNCHANGED <<ctx, into, tlohi>>

NextCache == CacheUtc2Local \/ CacheLocal2Utc \/ CacheAlignedLocalRange \/ NullCall

SpecCache == InitCache /\ [][NextCache]_vars

CacheCalled == calc.fn = "Cache" /\ call.fn # "none" /\ calc.null = "none"

\* The context held a computed frame and the call was inside its window.
InsideWindow ==
    /\ CacheCalled
    /\ call.fn \in {"Utc2Local", "Local2Utc"}
    /\ HasBothRules(Zone(ctx.pTZI))
    /\ calc.was.trLoBound < calc.was.trHiBound
    /\ ~OutsideWindow(calc.was, UpdateInstant(call, Zone(ctx.pTZI)))

\* The year whose frame contains the instant, Y being the year of the frame
\* in the context.
YearAround(cx, year, t) ==
    IF t < cx.trLoBound THEN year - 1
    ELSE IF t >= cx.trHiBound THEN year + 1
    ELSE year

\* The answer of the call on a context that holds the frame of a year.
AnswerOfYear(c, cx, year) ==
    IF c.fn = "Utc2Local"
    THEN tziGetInfoUtc2Local(StoreFrame(cx, tzi_YearFrame(Zone(cx.pTZI), year)), c.tsfrom)
    ELSE tziGetInfoLocal2Utc(StoreFrame(cx, tzi_YearFrame(Zone(cx.pTZI), year)),
                             c.tsfrom, c.hint)

AnswerOfOwnYear ==
    SameAnswer(AnswerOfYear(call, calc.was,
                            YearAround(calc.was, calc.year,
                                       UpdateInstant(call, Zone(ctx.pTZI)))))

\* C27: a query inside the window of the cached frame is answered from it
\* without recomputation, and the answer is that of the frame of the year
\* the instant lies in: in the slack before and after year Y that of the
\* frames of Y - 1 and Y + 1.
C27_CachedFrameValid ==
    InsideWindow => (ctx = calc.was /\ ~calc.computed /\ AnswerOfOwnYear)

\* The same for the zones whose transitions are not within the slack.
CachedFrameValidMidYear ==
    (InsideWindow /\ ctx.pTZI # "NewYear") => C27_CachedFrameValid

\* The call on a context that was never used.
OnZeroCtx(c, pTZI) ==
    IF c.fn = "Utc2Local" THEN tziGetInfoUtc2Local(ZeroCtx(pTZI), c.tsfrom)
    ELSE IF c.fn = "Local2Utc" THEN tziGetInfoLocal2Utc(ZeroCtx(pTZI), c.tsfrom, c.hint)
    ELSE tziAlignedLocalRange(tlohi, into, ZeroCtx(pTZI), c.tsfrom, c.period, c.phi)

PeriodGood(c) == c.period >= 1 /\ c.period <= 7 * 86400

\* The frame conditions of a call with its pointers set.
FrameKept ==
    (CacheCalled /\ calc.null = "none") =>
        /\ ~calc.computed => ctx = calc.was
        /\ ~HasBothRules(Zone(ctx.pTZI)) =>
               /\ ctx = calc.was
               /\ ~calc.computed
               /\ SameAnswer(OnZeroCtx(call, ctx.pTZI))
        /\ ctx.pTZI = calc.was.pTZI
        /\ (call.fn = "AlignedLocalRange" /\ ~PeriodGood(call)) => (~retv /\ calc.kept)

NullCalled == calc.fn = "Cache" /\ calc.null # "none"

BackToUtc(hint) == tziGetInfoLocal2Utc(ctx, call.tsfrom + into.offs, hint)

RoundTripBy(r) ==
    /\ r.retv
    /\ r.into.isDst = into.isDst /\ r.into.isHrA = into.isHrA /\ r.into.isHrB = into.isHrB
    /\ call.tsfrom + into.offs + r.into.offs = call.tsfrom
    /\ r.into.offs = -into.offs

\* C29: for Berlin, Auckland and Dublin the local time of a UTC instant
\* converts back to that instant under the hint DST or STD of its isDst,
\* with the same flags; under the hint None it converts to the same or, in
\* the repeated hour only, fails: no UTC instant maps into a gap.
C29_UtcLocalUtcRoundTrip ==
    (call.fn = "Utc2Local" /\ ~NullCalled
        /\ ctx.pTZI \in {"Berlin", "Auckland", "Dublin"}) =>
        /\ retv
        /\ RoundTripBy(BackToUtc(IF into.isDst = 1 THEN "DST" ELSE "STD"))
        /\ IF BackToUtc("None").retv
           THEN BackToUtc("None").into = BackToUtc(IF into.isDst = 1 THEN "DST" ELSE "STD").into
           ELSE into.isHrA = 1 \/ into.isHrB = 1

\* The same with a computed frame in the context.
RoundTripOnComputedFrame == (ctx.trLoBound < ctx.trHiBound) => C29_UtcLocalUtcRoundTrip

\* C30: a frame computed for an instant has trLoBound < trHiBound and holds
\* the instant within its window of one day of slack, so that the same
\* query again is a cache hit.
C30_FrameHoldsInstant ==
    (CacheCalled /\ calc.computed) =>
        /\ ctx.trLoBound < ctx.trHiBound
        /\ ~OutsideWindow(ctx, UpdateInstant(call, Zone(ctx.pTZI)))
        /\ ~Computes(call, ctx)

\* The same for the zones not more than an hour east of Greenwich.
FrameHoldsInstantWest ==
    (CacheCalled /\ int_max(Zone(ctx.pTZI).stdOffs, Zone(ctx.pTZI).dstOffs) >= -60)
        => C30_FrameHoldsInstant

====
